---- MODULE Spec2Model ----
(***************************************************************************)
(* A model of the 2D transformation subsystem of basil.js:                 *)
(*   - the Matrix2D type (src/includes/transformation.js),                 *)
(*   - the matrix stack API (pushMatrix, popMatrix, resetMatrix, rotate,   *)
(*     scale, translate, applyMatrix),                                     *)
(*   - the transform() facade over a page item of the host application.    *)
(*                                                                         *)
(* Numbers.  A JavaScript number is modelled as a pair <<n, d>>:           *)
(*   finite, non-zero : d > 0, n # 0, n/d in lowest terms                  *)
(*   +0  : <<0, 1>>      -0  : <<0, -1>>                                   *)
(*   +Infinity : <<1, 0>>   -Infinity : <<-1, 0>>   NaN : <<0, 0>>         *)
(* Arithmetic follows IEEE 754 for zeros, infinities and NaN; finite       *)
(* results are exact rationals (binary64 rounding is not modelled).        *)
(* The value undefined is <<>>, null is <<0>>, and an array [x, y] of two   *)
(* numbers is the triple <<x, y, <<>>>>, so that the kinds differ in length. *)
(*                                                                         *)
(* Angles of the matrix API are counted in quarter turns (1 is PI / 2), the *)
(* degrees of transform() are multiples of 90, and sine and cosine are      *)
(* exact.  Lengths of transform() are counted in units of 10^-12 (of a      *)
(* point, or of the active unit), so that rounding to 12 fractional digits  *)
(* is rounding to a whole number.                                           *)
(***************************************************************************)
EXTENDS Integers, Sequences, FiniteSets, TLC

VARIABLES
  \* ---- matrix stack API (module state of transformation.js)
  currMatrix,    \* elements of the current Matrix2D
  matrixStack,   \* sequence of snapshots (arrays of 6 numbers)
  currOriginX,   \* standing origin offset
  currOriginY,
  last,          \* the last API call: op, arguments, whether it threw, currMatrix before it
  pushedAt,      \* for each unmatched pushMatrix(), the matrix current at that call
  calls,         \* number of API calls made
  \* ---- Matrix2D as a value type: one method call on a receiver
  recv,          \* elements of the receiver
  recv0,         \* elements of the receiver before the call
  operand,       \* the argument: the other matrix (array of 6 numbers), or the list of numbers
  method,        \* the method that ran, "none" before the call
  ret,           \* its return value
  currRef,       \* the object currMatrix refers to: "own" (made by resetMatrix), "m" (the
                 \* Matrix2D the caller holds, recv) or "other" (one the caller let go)
  installs,      \* the Matrix2D arguments of matrix() since the last resetMatrix()
  \* ---- transform(): the host application's state and the facade's settings
  pItem,         \* the page item: inner size, matrix to spread coordinates, angle, scale
  prefs,         \* app.transformPreferences
  currRefPoint,  \* the active reference point
  currUnits,     \* the active unit
  pageTopLeft,   \* top left corner of the reference page, in spread coordinates
  tlast,         \* the last transform() or referencePoint() call: type, value, return value, threw
  refSet,        \* the anchor that the argument of the last successful referencePoint(rp) denotes
  writes,        \* number of transform() calls that wrote
  \* ---- the environment: canvas mode and the host's current page
  currCanvasMode, \* the active canvas mode
  hostPage,      \* the current page of the current document: margins, bleed, width, side
  dropped,       \* number of snapshots the last coordinate-system reset discarded
  currDoc,       \* "set" while there is a current document, "null" after close()
  currPage,      \* "set" while currPage refers to a page (hostPage), "null" otherwise
  currMode,      \* the draw mode: pub.MODEVISIBLE, pub.MODEHIDDEN or pub.MODESILENT
  currImageMode  \* the image mode: pub.CORNER, pub.CORNERS or pub.CENTER

stackVars == <<currMatrix, matrixStack, currOriginX, currOriginY, last, pushedAt, calls>>
aliasVars == <<currRef, installs>>
matrixVars == <<recv, recv0, operand, method, ret, aliasVars>>
itemVars == <<pItem, prefs, currRefPoint, currUnits, pageTopLeft, tlast, refSet, writes>>
docVars == <<currDoc, currPage, currMode, currImageMode>>
envVars == <<currCanvasMode, hostPage, dropped, docVars>>
vars == <<stackVars, matrixVars, itemVars, envVars>>

-----------------------------------------------------------------------------
(* JavaScript numbers *)

NaN == <<0, 0>>
PosInf == <<1, 0>>
NegInf == <<-1, 0>>
\* the value undefined; every number is a pair, so typeof v is "number" iff Len(v) = 2
UNDEF == <<>>
IsNumber(v) == Len(v) = 2
\* arguments[i] of a call
Arg(arguments, i) == IF i < Len(arguments) THEN arguments[i + 1] ELSE UNDEF

AbsI(i) == IF i < 0 THEN -i ELSE i

RECURSIVE GCD(_, _)
GCD(a, b) == IF b = 0 THEN a ELSE GCD(b, a % b)

\* the number literal i
I(i) == <<i, 1>>
\* the number p/q, q > 0
Q(p, q) == IF p = 0 THEN <<0, 1>> ELSE <<p \div GCD(AbsI(p), q), q \div GCD(AbsI(p), q)>>

IsNaN(x) == x = NaN
IsZero(x) == x[1] = 0 /\ x[2] # 0
IsInf(x) == x[1] # 0 /\ x[2] = 0
IsFinite(x) == x[2] # 0
\* sign bit of a non-NaN number: 1 or -1
Sign(x) == IF x[1] > 0 THEN 1 ELSE IF x[1] < 0 THEN -1 ELSE IF x[2] < 0 THEN -1 ELSE 1

\* the number of sign s and magnitude n/d (n, d >= 0)
Mk(s, n, d) ==
  IF n = 0 /\ d = 0 THEN NaN
  ELSE IF n = 0 THEN <<0, s>>
  ELSE IF d = 0 THEN <<s, 0>>
  ELSE <<s * (n \div GCD(n, d)), d \div GCD(n, d)>>

\* unary minus
Neg(x) == IF x[1] = 0 THEN <<0, -x[2]>> ELSE <<-x[1], x[2]>>

\* Math.abs
MathAbs(x) == <<AbsI(x[1]), AbsI(x[2])>>

\* the number of sign s and magnitude (n1 * n2) / (d1 * d2), reduced before
\* the products are taken
MkProduct(s, n1, n2, d1, d2) ==
  IF n1 = 0 \/ n2 = 0 \/ d1 = 0 \/ d2 = 0 THEN Mk(s, n1 * n2, d1 * d2)
  ELSE LET g1 == GCD(n1, d2)
           g2 == GCD(n2, d1)
       IN Mk(s, (n1 \div g1) * (n2 \div g2), (d1 \div g2) * (d2 \div g1))

\* a * b
Mul(a, b) ==
  IF IsNaN(a) \/ IsNaN(b) THEN NaN
  ELSE MkProduct(Sign(a) * Sign(b), AbsI(a[1]), AbsI(b[1]), AbsI(a[2]), AbsI(b[2]))

\* a / b
Div(a, b) ==
  IF IsNaN(a) \/ IsNaN(b) THEN NaN
  ELSE MkProduct(Sign(a) * Sign(b), AbsI(a[1]), AbsI(b[2]), AbsI(a[2]), AbsI(b[1]))

\* a + b
Add(a, b) ==
  IF IsNaN(a) \/ IsNaN(b) THEN NaN
  ELSE IF IsInf(a) THEN (IF IsInf(b) /\ b # a THEN NaN ELSE a)
  ELSE IF IsInf(b) THEN b
  ELSE IF IsZero(a) /\ IsZero(b) THEN (IF a[2] < 0 /\ b[2] < 0 THEN <<0, -1>> ELSE <<0, 1>>)
  ELSE LET g == GCD(AbsI(a[2]), AbsI(b[2]))
           num == a[1] * (AbsI(b[2]) \div g) + b[1] * (AbsI(a[2]) \div g)
           den == (AbsI(a[2]) \div g) * AbsI(b[2])
       IN IF num = 0 THEN <<0, 1>>
          ELSE Mk(IF num < 0 THEN -1 ELSE 1, AbsI(num), den)

\* a - b
Sub(a, b) == Add(a, Neg(b))

\* a > b
Gt(a, b) ==
  IF IsNaN(a) \/ IsNaN(b) THEN FALSE
  ELSE IF IsZero(a) /\ IsZero(b) THEN FALSE
  ELSE IF Sign(a) # Sign(b) THEN Sign(a) > Sign(b)
  ELSE IF IsInf(a) \/ IsInf(b) THEN
         (IF Sign(a) > 0 THEN IsInf(a) /\ ~IsInf(b) ELSE IsInf(b) /\ ~IsInf(a))
  ELSE a[1] * AbsI(b[2]) > b[1] * AbsI(a[2])

\* a === b on numbers: -0 equals +0, NaN equals nothing
NumEq(a, b) ==
  IF IsNaN(a) \/ IsNaN(b) THEN FALSE
  ELSE IF IsZero(a) \/ IsZero(b) THEN IsZero(a) /\ IsZero(b)
  ELSE a = b

\* truthiness of a value used as a condition: a number is falsy when 0, -0 or NaN
Truthy(v) == IF v = UNDEF THEN FALSE ELSE ~(IsZero(v) \/ IsNaN(v))

\* the literal -2147483648 of Matrix2D.invert
MIN_INT == <<-2147483647 - 1, 1>>

\* Math.cos and Math.sin.  Angles are counted in quarter turns (the number k is
\* the angle k * PI / 2) and are whole; the results are the exact values.
MathCos(a) == CASE a[1] % 4 = 0 -> I(1) [] a[1] % 4 = 1 -> I(0) [] a[1] % 4 = 2 -> I(-1) [] OTHER -> I(0)
MathSin(a) == CASE a[1] % 4 = 0 -> I(0) [] a[1] % 4 = 1 -> I(1) [] a[1] % 4 = 2 -> I(0) [] OTHER -> I(-1)

-----------------------------------------------------------------------------
(* Matrix2D: elements is an array, of six numbers unless set() was given an
   array of another length.  El(e, i) is e[i] of the source, undefined past the
   end of the array and in a hole; Num(e, i) is e[i] as an operand of * and +;
   Assign(e, i, v) is the array after e[i] = v, which grows to hold index i. *)

El(e, i) == IF i < Len(e) THEN e[i + 1] ELSE UNDEF

\* a value as an operand of arithmetic: undefined is NaN
ToNumber(v) == IF v = UNDEF THEN NaN ELSE v

Num(e, i) == ToNumber(El(e, i))

Holes(n) == [k \in 1..n |-> UNDEF]

Assign(e, i, v) ==
  IF i < Len(e) THEN [e EXCEPT ![i + 1] = v]
  ELSE e \o Holes(i - Len(e)) \o <<v>>

IdentityElements == <<I(1), I(0), I(0), I(0), I(1), I(0)>>

MatEq(a, b) == \A i \in 1..6 : NumEq(a[i], b[i])

\* Matrix2D.prototype.translate
translate(e, tx, ty) ==
  Assign(Assign(e, 2, Add(Add(Mul(tx, Num(e, 0)), Mul(ty, Num(e, 1))), Num(e, 2))),
         5, Add(Add(Mul(tx, Num(e, 3)), Mul(ty, Num(e, 4))), Num(e, 5)))

\* Matrix2D.prototype.array and Matrix2D.prototype.set on an array: both copy
array(e) == e
set(a) == a

\* Matrix2D.prototype.invTranslate
invTranslate(e, tx, ty) == translate(e, Neg(tx), Neg(ty))

\* Matrix2D.prototype.transpose: the body is empty
transpose(e) == e

\* Matrix2D.prototype.scale: sy may be UNDEF
scale(e, sx, sy) ==
  LET sy1 == IF Truthy(sx) /\ ~Truthy(sy) THEN sx ELSE sy
  IN IF Truthy(sx) /\ Truthy(sy1)
     THEN Assign(Assign(Assign(Assign(e, 0, Mul(Num(e, 0), sx)), 1, Mul(Num(e, 1), sy1)),
                        3, Mul(Num(e, 3), sx)), 4, Mul(Num(e, 4), sy1))
     ELSE e

\* Matrix2D.prototype.invScale: sy may be UNDEF
invScale(e, sx, sy) ==
  LET sy1 == IF Truthy(sx) /\ ~Truthy(sy) THEN sx ELSE sy
  IN scale(e, Div(I(1), ToNumber(sx)), Div(I(1), ToNumber(sy1)))

\* rotate that composes [cos, sin, 0, -sin, cos, 0]
rotateOtherSense(e, angle) ==
  LET c == MathCos(angle)
      s == MathSin(angle)
  IN Assign(Assign(Assign(Assign(e, 0, Sub(Mul(c, Num(e, 0)), Mul(s, Num(e, 1)))),
                          1, Add(Mul(s, Num(e, 0)), Mul(c, Num(e, 1)))),
                   3, Sub(Mul(c, Num(e, 3)), Mul(s, Num(e, 4)))),
            4, Add(Mul(s, Num(e, 3)), Mul(c, Num(e, 4))))

\* rotate with the sign of the sine exchanged in the second column only
rotateSignSlip(e, angle) ==
  LET c == MathCos(angle)
      s == MathSin(angle)
  IN Assign(Assign(Assign(Assign(e, 0, Add(Mul(c, Num(e, 0)), Mul(s, Num(e, 1)))),
                          1, Add(Mul(s, Num(e, 0)), Mul(c, Num(e, 1)))),
                   3, Add(Mul(c, Num(e, 3)), Mul(s, Num(e, 4)))),
            4, Add(Mul(s, Num(e, 3)), Mul(c, Num(e, 4))))

\* Matrix2D.prototype.rotate
rotate(e, angle) ==
  LET c == MathCos(angle)
      s == MathSin(angle)
  IN Assign(Assign(Assign(Assign(e, 0, Add(Mul(c, Num(e, 0)), Mul(s, Num(e, 1)))),
                          1, Add(Mul(Neg(s), Num(e, 0)), Mul(c, Num(e, 1)))),
                   3, Add(Mul(c, Num(e, 3)), Mul(s, Num(e, 4)))),
            4, Add(Mul(Neg(s), Num(e, 3)), Mul(c, Num(e, 4))))

\* Matrix2D.prototype.rotateZ
rotateZ(e, angle) == rotate(e, angle)

\* Matrix2D.prototype.invRotateZ: Math.PI is two quarter turns
invRotateZ(e, angle) == rotateZ(e, Sub(angle, I(2)))

\* apply with the two factors exchanged
applySwapped(e, source) ==
  <<Add(Mul(Num(e, 0), Num(source, 0)), Mul(Num(e, 3), Num(source, 1))),
    Add(Mul(Num(e, 1), Num(source, 0)), Mul(Num(e, 4), Num(source, 1))),
    Add(Add(Num(source, 2), Mul(Num(e, 2), Num(source, 0))), Mul(Num(e, 5), Num(source, 1))),
    Add(Mul(Num(e, 0), Num(source, 3)), Mul(Num(e, 3), Num(source, 4))),
    Add(Mul(Num(e, 1), Num(source, 3)), Mul(Num(e, 4), Num(source, 4))),
    Add(Add(Num(source, 5), Mul(Num(e, 2), Num(source, 3))), Mul(Num(e, 5), Num(source, 4)))>>

\* Matrix2D.prototype.apply
apply(e, source) ==
  LET cell(row, col) ==
        Add(IF col = 2 THEN Num(e, row * 3 + 2) ELSE I(0),
            Add(Mul(Num(e, row * 3 + 0), Num(source, col + 0)),
                Mul(Num(e, row * 3 + 1), Num(source, col + 3))))
  IN <<cell(0, 0), cell(0, 1), cell(0, 2), cell(1, 0), cell(1, 1), cell(1, 2)>>

\* preApply that keeps the receiver's translation column as it is
preApplyKeepsTranslation(e, source) ==
  <<Add(Mul(Num(e, 0), Num(source, 0)), Mul(Num(e, 3), Num(source, 1))),
    Add(Mul(Num(e, 1), Num(source, 0)), Mul(Num(e, 4), Num(source, 1))),
    Add(Num(source, 2), Num(e, 2)),
    Add(Mul(Num(e, 0), Num(source, 3)), Mul(Num(e, 3), Num(source, 4))),
    Add(Mul(Num(e, 1), Num(source, 3)), Mul(Num(e, 4), Num(source, 4))),
    Add(Num(source, 5), Num(e, 5))>>

\* Matrix2D.prototype.preApply
preApply(e, source) ==
  <<Add(Mul(Num(e, 0), Num(source, 0)), Mul(Num(e, 3), Num(source, 1))),
    Add(Mul(Num(e, 1), Num(source, 0)), Mul(Num(e, 4), Num(source, 1))),
    Add(Add(Num(source, 2), Mul(Num(e, 2), Num(source, 0))), Mul(Num(e, 5), Num(source, 1))),
    Add(Mul(Num(e, 0), Num(source, 3)), Mul(Num(e, 3), Num(source, 4))),
    Add(Mul(Num(e, 1), Num(source, 3)), Mul(Num(e, 4), Num(source, 4))),
    Add(Add(Num(source, 5), Mul(Num(e, 2), Num(source, 3))), Mul(Num(e, 5), Num(source, 4)))>>

\* Matrix2D.prototype.determinant
determinant(e) == Sub(Mul(Num(e, 0), Num(e, 4)), Mul(Num(e, 1), Num(e, 3)))

\* Matrix2D.prototype.invert: the return value and the elements afterwards
invertGuard(d) == Gt(MathAbs(d), MIN_INT)

\* The six coefficients are assigned one by one, from the values read before
\* the first assignment; entries of this.elements past the sixth stay.
\* invert with the two products of the translation column added, not subtracted
invertSignSlip(e) ==
  LET d == determinant(e)
  IN IF invertGuard(d)
     THEN [ret |-> TRUE,
           elements |->
             Assign(Assign(Assign(Assign(Assign(Assign(e,
               0, Div(Num(e, 4), d)),
               3, Div(Neg(Num(e, 3)), d)),
               1, Div(Neg(Num(e, 1)), d)),
               4, Div(Num(e, 0), d)),
               2, Div(Add(Mul(Num(e, 1), Num(e, 5)), Mul(Num(e, 4), Num(e, 2))), d)),
               5, Div(Add(Mul(Num(e, 3), Num(e, 2)), Mul(Num(e, 0), Num(e, 5))), d))]
     ELSE [ret |-> FALSE, elements |-> e]

invert(e) ==
  LET d == determinant(e)
  IN IF invertGuard(d)
     THEN [ret |-> TRUE,
           elements |->
             Assign(Assign(Assign(Assign(Assign(Assign(e,
               0, Div(Num(e, 4), d)),
               3, Div(Neg(Num(e, 3)), d)),
               1, Div(Neg(Num(e, 1)), d)),
               4, Div(Num(e, 0), d)),
               2, Div(Sub(Mul(Num(e, 1), Num(e, 5)), Mul(Num(e, 4), Num(e, 2))), d)),
               5, Div(Sub(Mul(Num(e, 3), Num(e, 2)), Mul(Num(e, 0), Num(e, 5))), d))]
     ELSE [ret |-> FALSE, elements |-> e]

\* Matrix2D.prototype.mult on an array [x, y]
mult(e, p) ==
  <<Add(Add(Mul(Num(e, 0), p[1]), Mul(Num(e, 1), p[2])), Num(e, 2)),
    Add(Add(Mul(Num(e, 3), p[1]), Mul(Num(e, 4), p[2])), Num(e, 5))>>

PtEq(p, q) == NumEq(p[1], q[1]) /\ NumEq(p[2], q[2])

-----------------------------------------------------------------------------
(* The host application, as transform() uses it.  A page item is a rectangle
   (0, 0)..(w, h) of its inner coordinates and a matrix m that takes inner
   coordinates to spread coordinates, in points, y pointing down; pasteboard
   and spread coordinates differ by a translation only.  rotationAngle is
   counterclockwise in degrees.  The host keeps the angle and the scale
   percentages along with the matrix: a rotation adds to the angle (it is not
   brought back into a range), a scaling multiplies the percentages.  The
   operation is the one on affine matrices; what the host does with a matrix
   that has a component which is no finite number is given nowhere, and no
   call that hands it one is drawn (see DividesByExtent). *)

\* the digits kept by precision(), and the grid of the lengths
Digits == 12

NULL == <<0>>

\* an array [x, y] of two numbers
ARR(x, y) == <<x, y, <<>>>>

\* a string, such as "3": neither a number nor an array
AString == <<0, 0, 0, 0>>

\* isNumber and isArray of the library
isNumber(v) == IsNumber(v) /\ ~IsNaN(v)
isArray(v) == Len(v) = 3

RECURSIVE Pow10(_)
Pow10(k) == IF k = 0 THEN 1 ELSE 10 * Pow10(k - 1)

\* Math.round: the nearest whole number, halves upwards
MathRound(x) ==
  IF ~IsFinite(x) THEN x
  ELSE LET r == (2 * x[1] + AbsI(x[2])) \div (2 * AbsI(x[2]))
       IN IF r = 0 THEN <<0, Sign(x)>> ELSE <<r, 1>>

\* precision(num, dec): num rounded to dec fractional digits.  Lengths are
\* counted in units of 10^-Digits.
precision(num, dec) ==
  LET g == I(Pow10(Digits - dec))
  IN Mul(MathRound(Div(num, g)), g)

\* points per unit
UnitFactor(u) ==
  CASE u = "pt" -> I(1)
    [] u = "px" -> I(1)
    [] u = "mm" -> Q(360, 127)
    [] u = "cm" -> Q(3600, 127)
    [] u = "inch" -> I(72)

\* a length that is taken for points whatever its unit
AsPointsUnconverted(v, u) == v

\* UnitValue(v, unit).as(MeasurementUnits.POINTS) and UnitValue(v, POINTS).as(unit)
AsPoints(v, u) == Mul(v, UnitFactor(u))
AsUnit(v, u) == Div(v, UnitFactor(u))

\* Matrix2D.prototype.adobeMatrix: the array returned; the receiver is copied
\* by get() first and stays as it is
adobeMatrix(e, x, y, u) ==
  LET tmp1 == preApply(e, <<I(1), I(0), Neg(x), I(0), I(1), Neg(y)>>)
      tmpMatrix == apply(tmp1, <<I(1), I(0), x, I(0), I(1), y>>)
  IN <<El(tmpMatrix, 0), El(tmpMatrix, 3), El(tmpMatrix, 1), El(tmpMatrix, 4),
       AsPoints(El(tmpMatrix, 2), u), AsPoints(El(tmpMatrix, 5), u)>>

\* the point an Adobe matrix [a, b, c, d, tx, ty] sends the point p to
adobeMult(m, p) ==
  <<Add(Add(Mul(m[1], p[1]), Mul(m[3], p[2])), m[5]),
    Add(Add(Mul(m[2], p[1]), Mul(m[4], p[2])), m[6])>>

\* where an anchor point lies in a box, as a fraction of its width and height
AnchorX(rp) ==
  CASE rp \in {"topLeft", "centerLeft", "bottomLeft"} -> I(0)
    [] rp \in {"topCenter", "center", "bottomCenter"} -> Q(1, 2)
    [] rp \in {"topRight", "centerRight", "bottomRight"} -> I(1)
AnchorY(rp) ==
  CASE rp \in {"topLeft", "topCenter", "topRight"} -> I(0)
    [] rp \in {"centerLeft", "center", "centerRight"} -> Q(1, 2)
    [] rp \in {"bottomLeft", "bottomCenter", "bottomRight"} -> I(1)

\* F(x), with x evaluated once
With(x, F(_)) == CHOOSE y \in { F(v) : v \in {x} } : TRUE

MinOf(S) == With(S, LAMBDA T : CHOOSE a \in T : \A b \in T : ~Gt(a, b))
MaxOf(S) == With(S, LAMBDA T : CHOOSE a \in T : \A b \in T : ~Gt(b, a))

\* the corners of the item in spread coordinates
Corners(item) == { mult(item.m, <<x, y>>) : x \in {I(0), item.w}, y \in {I(0), item.h} }

\* the bounding box of the item in spread coordinates: <<y1, x1, y2, x2>>
SpreadBounds(item) ==
  With(Corners(item), LAMBDA cs :
    <<MinOf({ c[2] : c \in cs }), MinOf({ c[1] : c \in cs }),
      MaxOf({ c[2] : c \in cs }), MaxOf({ c[1] : c \in cs })>>)

\* pItem.geometricBounds: [top, left, bottom, right] from the page's top left
\* corner, in the ruler's unit
geometricBounds(item, E) ==
  With(SpreadBounds(item), LAMBDA b :
    <<AsUnit(Sub(b[1], E.pageTopLeft[2]), E.units),
      AsUnit(Sub(b[2], E.pageTopLeft[1]), E.units),
      AsUnit(Sub(b[3], E.pageTopLeft[2]), E.units),
      AsUnit(Sub(b[4], E.pageTopLeft[1]), E.units)>>)

\* pItem.resolve([aPoint, GEOMETRIC_PATH_BOUNDS, INNER_COORDINATES], SPREAD_COORDINATES)[0]
resolve(item, aPoint) ==
  mult(item.m, <<Mul(AnchorX(aPoint), item.w), Mul(AnchorY(aPoint), item.h)>>)

\* TransformationMatrix.scaleMatrix, rotateMatrix, shearMatrix, translateMatrix:
\* the matrix, and what it does to the angles and to the scale percentages
scaleMatrix(sx, sy) ==
  [m |-> <<sx, I(0), I(0), I(0), sy, I(0)>>,
   rotation |-> I(0), shear |-> I(0), sx |-> sx, sy |-> sy]
rotateMatrix(deg) ==
  LET c == MathCos(Div(deg, I(90)))
      s == MathSin(Div(deg, I(90)))
  IN [m |-> <<c, s, I(0), Neg(s), c, I(0)>>,
      rotation |-> deg, shear |-> I(0), sx |-> I(1), sy |-> I(1)]
\* the shear angle is a multiple of 45 degrees other than 90
shearMatrix(deg) ==
  LET t == MathSin(Div(deg, I(45)))
  IN [m |-> <<I(1), t, I(0), I(0), I(1), I(0)>>,
      rotation |-> I(0), shear |-> deg, sx |-> I(1), sy |-> I(1)]
translateMatrix(tx, ty) ==
  [m |-> <<I(1), I(0), tx, I(0), I(1), ty>>,
   rotation |-> I(0), shear |-> I(0), sx |-> I(1), sy |-> I(1)]

\* pItem.transform that acts about the origin of the pasteboard, whatever the
\* anchor point
transformItemAboutOrigin(item, aPoint, tm) ==
  [item EXCEPT !.m = apply(tm.m, item.m),
               !.rotationAngle = Add(@, tm.rotation),
               !.shearAngle = Add(@, tm.shear),
               !.horizontalScale = Mul(@, tm.sx),
               !.verticalScale = Mul(@, tm.sy)]

\* pItem.transform(CoordinateSpaces.PASTEBOARD_COORDINATES, aPoint, tm): tm acts
\* in the axes of the pasteboard, about the anchor point of the item, which is
\* the point that resolve() reports and which it holds fixed.  The result is
\* the item afterwards.
transformItem(item, aPoint, tm) ==
  With(resolve(item, aPoint), LAMBDA from :
    With(apply(translateMatrix(from[1], from[2]).m, tm.m), LAMBDA toAnchor :
      With(apply(toAnchor, translateMatrix(Neg(from[1]), Neg(from[2])).m), LAMBDA about :
        [item EXCEPT !.m = apply(about, item.m),
                     !.rotationAngle = Add(@, tm.rotation),
                     !.shearAngle = Add(@, tm.shear),
                     !.horizontalScale = Mul(@, tm.sx),
                     !.verticalScale = Mul(@, tm.sy)])))

-----------------------------------------------------------------------------
(* transform(pItem, type, value).  W is the host's state (the item and the
   transform preferences), E the settings of the library (reference point,
   unit, origin, the reference page's top left corner).  The result is the
   host's state afterwards, the return value, whether the call threw, and the
   array that was passed as value as the call leaves it. *)

PrefsDuring == [adjustStrokeWeightWhenScaling |-> FALSE, whenScaling |-> "ADJUST_SCALING_PERCENTAGE"]
PrefsAfter == [adjustStrokeWeightWhenScaling |-> TRUE, whenScaling |-> "APPLY_TO_CONTENT"]

\* a factor that is used as it is, not divided by the extent
scaleToAsFactor(value, extent) == value

\* value / w: the factor that brings the extent to value
scaleTo(value, extent) == Div(value, extent)

\* a rotation by the value, whatever the angle of the item
rotateByIncrement(rotationAngle, value) == Neg(value)

\* -pItem.rotationAngle - value
rotateBy(rotationAngle, value) == Sub(Neg(rotationAngle), value)

\* -pItem.shearAngle - value
shearBy(shearAngle, value) == Sub(Neg(shearAngle), value)

\* an offset that is the target itself
positionOffsetAbsolute(value, anchorPosOnPage) == value

\* [value[0] - anchorPosOnPage[0], value[1] - anchorPosOnPage[1]]
positionOffset(value, anchorPosOnPage) ==
  ARR(Sub(value[1], anchorPosOnPage[1]), Sub(value[2], anchorPosOnPage[2]))

\* a return of the value whenever one was passed
valueIfGiven(result, value) == IF value # UNDEF THEN value ELSE result

\* a return of result as it stands, null included
resultAsItStands(result, value) == result

\* if(result === null) { result = value; } return result;
resultOrValue(result, value) == IF result = NULL THEN value ELSE result

\* a write of x, y or position that returns what its inner call returned
returnReadBack(value, inner) == inner.ret

\* return value; in the x, y and position writes
returnValue(value, inner) == value

\* a test of the first argument that lets everything pass
invalidFirstParameterNever(item) == FALSE

\* !pItem || !pItem.hasOwnProperty("geometricBounds")
invalidFirstParameter(item) == ~item.hasGeometricBounds

\* error(msg) that prints the message and returns
errorOnlyPrints(it, pr, value) ==
  [item |-> it, prefs |-> pr, ret |-> value, threw |-> FALSE, value |-> value]

\* error(msg): prints the message and throws; the host's state stays as it is
\* at that point
error(it, pr, value) ==
  [item |-> it, prefs |-> pr, ret |-> UNDEF, threw |-> TRUE, value |-> value]

\* the target of an x write, were the other coordinate taken as 0
positionWithXOnly(value, anchorPosOnPage) == ARR(value, I(0))

\* the targets of an x write and of a y write: the other coordinate is the
\* one the anchor has
positionWithX(value, anchorPosOnPage) == ARR(value, anchorPosOnPage[2])
positionWithY(value, anchorPosOnPage) == ARR(anchorPosOnPage[1], value)

\* the caller's array after the translate branch has converted it, were the
\* conversion made on a copy
valueKept(value, v) == value

\* the caller's array after the translate branch: value[0] and value[1] are
\* assigned the converted offsets v
valueConverted(value, v) == v

RECURSIVE transform(_, _, _, _)
transform(W, E, type, value) ==
  LET item == W.item
      aPoint == E.refPoint
      unitEnum == E.units
      bounds == geometricBounds(item, E)
      w == With(bounds, LAMBDA b : MathAbs(Sub(b[4], b[2])))
      h == With(bounds, LAMBDA b : MathAbs(Sub(b[3], b[1])))
      \* the end of the function
      Return(result, it, val) ==
        [item |-> it, prefs |-> PrefsAfter,
         ret |-> resultOrValue(result, val),
         threw |-> FALSE, value |-> val]
      \* pItem.transform(...) with tm, then the end of the function
      Write(tm) == Return(NULL, transformItem(item, aPoint, tm), value)
      \* a call of transform() from inside
      Inner(it, t, v) == transform([item |-> it, prefs |-> PrefsDuring], E, t, v)
      topLeft == <<Add(E.pageTopLeft[1], AsPoints(E.originX, unitEnum)),
                   Add(E.pageTopLeft[2], AsPoints(E.originY, unitEnum))>>
      anchorPosOnPagePt(anchorPosOnSpread) ==
        <<Sub(anchorPosOnSpread[1], topLeft[1]), Sub(anchorPosOnSpread[2], topLeft[2])>>
      anchorPosOnPage ==
        With(anchorPosOnPagePt(resolve(item, aPoint)), LAMBDA pt :
          <<AsUnit(pt[1], unitEnum), AsUnit(pt[2], unitEnum)>>)
      \* return value: leaves before the preferences are set at the end
      ReturnValue(inner) ==
        With(inner, LAMBDA p :
          [p EXCEPT !.ret = IF p.threw THEN UNDEF ELSE returnValue(value, p), !.value = value])
  IN
  IF invalidFirstParameter(item) THEN error(item, W.prefs, value)
  ELSE IF type = "width" THEN
    IF isNumber(value)
    THEN Write(scaleMatrix(scaleTo(value, w), I(1)))
    ELSE Return(precision(w, Digits), item, value)
  ELSE IF type = "height" THEN
    IF isNumber(value)
    THEN Write(scaleMatrix(I(1), scaleTo(value, h)))
    ELSE Return(precision(h, Digits), item, value)
  ELSE IF type = "size" THEN
    IF isArray(value)
    THEN Write(scaleMatrix(scaleTo(value[1], w), scaleTo(value[2], h)))
    ELSE Return(ARR(precision(w, Digits), precision(h, Digits)), item, value)
  ELSE IF type = "translate" \/ type = "translation" THEN
    IF isArray(value)
    THEN With(ARR(AsPoints(value[1], unitEnum), AsPoints(value[2], unitEnum)), LAMBDA v :
           With(transformItem(item, aPoint, translateMatrix(v[1], v[2])), LAMBDA moved :
             With(Inner(moved, "position", UNDEF), LAMBDA p :
               IF p.threw THEN [p EXCEPT !.value = valueConverted(value, v)]
               ELSE Return(p.ret, p.item, valueConverted(value, v)))))
    ELSE With(Inner(item, "position", UNDEF), LAMBDA p :
           IF p.threw THEN p ELSE Return(p.ret, p.item, value))
  ELSE IF type = "rotate" \/ type = "rotation" THEN
    IF isNumber(value)
    THEN With(transformItem(item, aPoint, rotateMatrix(rotateBy(item.rotationAngle, value))),
              LAMBDA turned : Return(Neg(turned.rotationAngle), turned, value))
    ELSE Return(Neg(item.rotationAngle), item, value)
  ELSE IF type = "scale" \/ type = "scaling" THEN
    With(IF isNumber(value) THEN transformItem(item, aPoint, scaleMatrix(value, value))
         ELSE IF isArray(value) THEN transformItem(item, aPoint, scaleMatrix(value[1], value[2]))
         ELSE item,
         LAMBDA scaled :
           Return(ARR(Div(scaled.horizontalScale, I(100)), Div(scaled.verticalScale, I(100))),
                  scaled, value))
  ELSE IF type = "shear" \/ type = "shearing" THEN
    IF isNumber(value)
    THEN With(transformItem(item, aPoint, shearMatrix(shearBy(item.shearAngle, value))),
              LAMBDA sheared : Return(Neg(sheared.shearAngle), sheared, value))
    ELSE Return(Neg(item.shearAngle), item, value)
  ELSE IF type = "position" \/ type = "x" \/ type = "y" THEN
    IF type = "x" THEN
      IF isNumber(value)
      THEN ReturnValue(Inner(item, "position", positionWithX(value, anchorPosOnPage)))
      ELSE Return(precision(anchorPosOnPage[1], Digits), item, value)
    ELSE IF type = "y" THEN
      IF isNumber(value)
      THEN ReturnValue(Inner(item, "position", positionWithY(value, anchorPosOnPage)))
      ELSE Return(precision(anchorPosOnPage[2], Digits), item, value)
    ELSE
      IF isArray(value)
      THEN ReturnValue(Inner(item, "translate", positionOffset(value, anchorPosOnPage)))
      ELSE Return(ARR(precision(anchorPosOnPage[1], Digits), precision(anchorPosOnPage[2], Digits)),
                  item, value)
  ELSE error(item, PrefsDuring, value)

\* the write of a width, a height or a size to an item whose extent along
\* that axis is zero: value / w is then no finite number and the scale matrix
\* no affine matrix.  The calls drawn are the others.
DividesByExtent(item, E, type, value) ==
  /\ ~invalidFirstParameter(item)
  /\ With(geometricBounds(item, E), LAMBDA b :
       LET w == MathAbs(Sub(b[4], b[2]))
           h == MathAbs(Sub(b[3], b[1]))
       IN \/ type = "width" /\ isNumber(value) /\ IsZero(w)
          \/ type = "height" /\ isNumber(value) /\ IsZero(h)
          \/ type = "size" /\ isArray(value) /\ (IsZero(w) \/ IsZero(h)))

-----------------------------------------------------------------------------
(* The three parts of the state, each as it stands while another part is exercised *)

NoCall == [op |-> "none", arg |-> <<>>, threw |-> FALSE, pre |-> IdentityElements]

StackIdle ==
  /\ currMatrix = IdentityElements
  /\ matrixStack = <<>>
  /\ currOriginX = I(0)
  /\ currOriginY = I(0)
  /\ last = NoCall
  /\ pushedAt = <<>>
  /\ calls = 0

MatrixIdle ==
  /\ recv = IdentityElements
  /\ recv0 = IdentityElements
  /\ operand = IdentityElements
  /\ method = "none"
  /\ ret = UNDEF
  /\ currRef = "own"
  /\ installs = <<>>

\* a rectangle w by h whose inner origin lies at (x, y) of the spread, turned
\* counterclockwise by a multiple of 90 degrees about that origin
PageItem(w, h, x, y, deg) ==
  [hasGeometricBounds |-> TRUE, w |-> w, h |-> h,
   m |-> apply(translateMatrix(x, y).m, rotateMatrix(deg).m),
   rotationAngle |-> deg, shearAngle |-> I(0),
   horizontalScale |-> I(100), verticalScale |-> I(100)]

NoTransform == [type |-> "none", value |-> UNDEF, ret |-> UNDEF, threw |-> FALSE,
                pre |-> PageItem(I(1), I(1), I(0), I(0), I(0))]

\* a page of a document without facing pages
SinglePage ==
  [facingPages |-> FALSE, rightHand |-> FALSE, name1 |-> TRUE, width |-> I(20),
   marginLeft |-> I(1), marginRight |-> I(2), marginTop |-> I(3),
   bleedLeft |-> Q(1, 2), bleedRight |-> Q(1, 2), bleedTop |-> Q(3, 2)]

\* the document part of the state after init()
DocIdle ==
  /\ currDoc = "set"
  /\ currPage = "set"
  /\ currMode = "MODEVISIBLE"
  /\ currImageMode = "corner"

EnvIdle ==
  /\ currCanvasMode = "page"
  /\ hostPage = SinglePage
  /\ dropped = 0
  /\ DocIdle

ItemIdle ==
  /\ pItem = NoTransform.pre
  /\ prefs = PrefsAfter
  /\ currRefPoint = "topLeft"
  /\ refSet = "topLeft"
  /\ currUnits = "mm"
  /\ pageTopLeft = <<I(0), I(0)>>
  /\ tlast = NoTransform
  /\ writes = 0

-----------------------------------------------------------------------------
(* Matrix2D as a value type: a receiver and an operand are drawn, one method is called *)

Coef == {-1, 0, 1, 2}
\* the receivers: six coefficients, and two arrays of seven and of eight
\* entries, as set() with one Array leaves them
RecvSet ==
  { <<I(a), I(b), I(t[1]), I(d), I(e), I(t[2])>> :
      a \in Coef, b \in Coef, d \in Coef, e \in Coef, t \in {<<0, 0>>, <<3, -2>>} }
  \cup { <<Q(1, 2), I(0), I(1), I(0), I(4), Q(-1, 3)>>,
         <<Q(3, 2), Q(1, 2), I(-1), Q(-1, 2), I(1), I(5)>>,
         <<I(1), I(0), I(0), I(0), I(1), I(0), I(9)>>,
         <<I(2), I(0), I(1), I(0), I(2), I(1), I(7), I(8)>> }

OperandSet ==
  { IdentityElements,
    <<I(1), I(0), I(3), I(0), I(1), I(-2)>>,
    <<I(2), I(0), I(0), I(0), I(-1), I(0)>>,
    <<I(0), I(-1), I(0), I(1), I(0), I(0)>>,
    <<I(1), I(2), I(0), I(0), I(1), I(0)>>,
    <<I(1), I(2), I(1), I(2), I(4), I(-3)>>,
    <<I(0), I(0), I(0), I(0), I(0), I(0)>>,
    <<I(2), I(-1), I(1), I(1), I(2), I(-3)>>,
    <<I(-1), I(2), I(-2), I(0), I(2), I(1)>>,
    <<Q(1, 2), I(1), I(0), I(-1), Q(2, 3), I(1)>> }

Points == { <<I(0), I(0)>>, <<I(1), I(0)>>, <<I(0), I(1)>>, <<I(2), I(-3)>>, <<Q(1, 2), I(5)>> }

\* m.apply(operand)
CallApply ==
  /\ method = "none"
  /\ method' = "apply"
  /\ recv' = apply(recv, operand)
  /\ ret' = UNDEF
  /\ UNCHANGED <<recv0, operand, aliasVars, stackVars, itemVars, envVars>>

\* m.preApply(operand)
CallPreApply ==
  /\ method = "none"
  /\ method' = "preApply"
  /\ recv' = preApply(recv, operand)
  /\ ret' = UNDEF
  /\ UNCHANGED <<recv0, operand, aliasVars, stackVars, itemVars, envVars>>

\* m.invert()
CallInvert ==
  /\ method = "none"
  /\ method' = "invert"
  /\ recv' = invert(recv).elements
  /\ ret' = invert(recv).ret
  /\ UNCHANGED <<recv0, operand, aliasVars, stackVars, itemVars, envVars>>

InitMatrix ==
  /\ recv \in RecvSet
  /\ recv0 = recv
  /\ operand \in OperandSet
  /\ method = "none"
  /\ ret = UNDEF
  /\ currRef = "own"
  /\ installs = <<>>
  /\ StackIdle
  /\ ItemIdle
  /\ EnvIdle

NextMatrix == CallApply \/ CallPreApply \/ CallInvert

SpecMatrix == InitMatrix /\ [][NextMatrix]_vars

-----------------------------------------------------------------------------
(* Matrix2D as a value type: a receiver is drawn, one of the methods that take
   numbers is called on it *)

\* angles, in quarter turns
Angles == { I(0), I(1), I(2), I(3), I(-1) }

\* argument lists of scale: a factor that is missing is undefined
ScaleArgs ==
  { <<I(2)>>, <<Q(3, 2)>>, <<I(2), I(3)>>, <<I(-1), Q(1, 2)>>, <<I(-2)>>,
    <<I(0), I(3)>>, <<I(2), I(0)>>, <<I(0)>>, <<I(0), I(0)>> }

\* m.rotate(angle)
CallRotate ==
  /\ method = "none"
  /\ method' = "rotate"
  /\ \E a \in Angles :
       /\ operand' = <<a>>
       /\ recv' = rotate(recv, a)
  /\ ret' = UNDEF
  /\ UNCHANGED <<recv0, aliasVars, stackVars, itemVars, envVars>>

\* m.scale(sx, sy), m.scale(sx)
CallScale ==
  /\ method = "none"
  /\ method' = "scale"
  /\ \E a \in ScaleArgs :
       /\ operand' = a
       /\ recv' = scale(recv, Arg(a, 0), Arg(a, 1))
  /\ ret' = UNDEF
  /\ UNCHANGED <<recv0, aliasVars, stackVars, itemVars, envVars>>

\* m.rotateZ(angle)
CallRotateZ ==
  /\ method = "none"
  /\ method' = "rotateZ"
  /\ \E a \in Angles :
       /\ operand' = <<a>>
       /\ recv' = rotateZ(recv, a)
  /\ ret' = UNDEF
  /\ UNCHANGED <<recv0, aliasVars, stackVars, itemVars, envVars>>

\* m.invRotateZ(angle)
CallInvRotateZ ==
  /\ method = "none"
  /\ method' = "invRotateZ"
  /\ \E a \in Angles :
       /\ operand' = <<a>>
       /\ recv' = invRotateZ(recv, a)
  /\ ret' = UNDEF
  /\ UNCHANGED <<recv0, aliasVars, stackVars, itemVars, envVars>>

\* m.invScale(sx, sy), m.invScale(sx)
CallInvScale ==
  /\ method = "none"
  /\ method' = "invScale"
  /\ \E a \in ScaleArgs :
       /\ operand' = a
       /\ recv' = invScale(recv, Arg(a, 0), Arg(a, 1))
  /\ ret' = UNDEF
  /\ UNCHANGED <<recv0, aliasVars, stackVars, itemVars, envVars>>

\* Matrix2D.prototype.set with the argument list a.  Six numbers are set as
\* the array of them; one argument that is a Matrix2D or an Array, written
\* <<"Matrix2D", elements>> or <<"Array", elements>>, gives a copy of its
\* elements, whatever their number; any other argument list (a single number,
\* written <<n>>, or none) is ignored.
setArgs(e, a) ==
  IF Len(a) = 6 THEN set(a)
  ELSE IF Len(a) = 2 /\ a[1] = "Matrix2D" THEN array(a[2])
  ELSE IF Len(a) = 2 /\ a[1] = "Array" THEN set(a[2])
  ELSE e

\* argument lists of translate and invTranslate
ShiftArgs == { <<I(3), I(-2)>>, <<I(1), I(2)>>, <<Q(1, 2), I(0)>> }

\* argument lists of set: six numbers, a Matrix2D, an array of six numbers,
\* an array of two, an empty array, one number, nothing
SetArgs ==
  { <<I(2), I(0), I(1), I(0), I(2), I(1)>>,
    <<"Matrix2D", <<I(0), I(-1), I(5), I(1), I(0), I(0)>>>>,
    <<"Array", <<I(0), I(-1), I(5), I(1), I(0), I(0)>>>>,
    <<"Array", <<I(1), I(2)>>>>,
    <<"Array", <<>>>>,
    <<I(2)>>, <<>> }

\* m.translate(tx, ty)
CallTranslate ==
  /\ method = "none"
  /\ method' = "translate"
  /\ \E a \in ShiftArgs :
       /\ operand' = a
       /\ recv' = translate(recv, a[1], a[2])
  /\ ret' = UNDEF
  /\ UNCHANGED <<recv0, aliasVars, stackVars, itemVars, envVars>>

\* m.invTranslate(tx, ty)
CallInvTranslate ==
  /\ method = "none"
  /\ method' = "invTranslate"
  /\ \E a \in ShiftArgs :
       /\ operand' = a
       /\ recv' = invTranslate(recv, a[1], a[2])
  /\ ret' = UNDEF
  /\ UNCHANGED <<recv0, aliasVars, stackVars, itemVars, envVars>>

\* m.set(...)
CallSet ==
  /\ method = "none"
  /\ method' = "set"
  /\ \E a \in SetArgs :
       /\ operand' = a
       /\ recv' = setArgs(recv, a)
  /\ ret' = UNDEF
  /\ UNCHANGED <<recv0, aliasVars, stackVars, itemVars, envVars>>

\* m.reset()
CallReset ==
  /\ method = "none"
  /\ method' = "reset"
  /\ operand' = <<>>
  /\ recv' = set(IdentityElements)
  /\ ret' = UNDEF
  /\ UNCHANGED <<recv0, aliasVars, stackVars, itemVars, envVars>>

\* m.transpose()
CallTranspose ==
  /\ method = "none"
  /\ method' = "transpose"
  /\ operand' = <<>>
  /\ recv' = transpose(recv)
  /\ ret' = UNDEF
  /\ UNCHANGED <<recv0, aliasVars, stackVars, itemVars, envVars>>

\* anchors of adobeMatrix
AnchorSet == { <<I(0), I(0)>>, <<I(2), I(-3)>>, <<Q(1, 2), I(5)>> }

\* m.adobeMatrix(x, y)
CallAdobeMatrix ==
  /\ method = "none"
  /\ method' = "adobeMatrix"
  /\ \E a \in AnchorSet :
       /\ operand' = a
       /\ ret' = adobeMatrix(recv, a[1], a[2], currUnits)
  /\ recv' = recv
  /\ UNCHANGED <<recv0, aliasVars, stackVars, itemVars, envVars>>

\* the units that adobeMatrix() reads are the millimetres of start-up or the
\* points that units(PT) has set
InitMutator ==
  /\ recv \in RecvSet
  /\ recv0 = recv
  /\ operand = <<>>
  /\ method = "none"
  /\ ret = UNDEF
  /\ currRef = "own"
  /\ installs = <<>>
  /\ StackIdle
  /\ pItem = NoTransform.pre
  /\ prefs = PrefsAfter
  /\ currRefPoint = "topLeft"
  /\ refSet = "topLeft"
  /\ currUnits \in {"mm", "pt"}
  /\ pageTopLeft = <<I(0), I(0)>>
  /\ tlast = NoTransform
  /\ writes = 0
  /\ EnvIdle

NextMutator ==
  \/ CallRotate
  \/ CallScale
  \/ CallAdobeMatrix
  \/ CallRotateZ
  \/ CallInvRotateZ
  \/ CallInvScale
  \/ CallTranslate
  \/ CallInvTranslate
  \/ CallSet
  \/ CallReset
  \/ CallTranspose

SpecMutator == InitMutator /\ [][NextMutator]_vars

-----------------------------------------------------------------------------
(* The matrix stack API.  Every action is one call of a public function; a call
   that ends in error() throws, which is recorded in last.threw.  calls counts
   the calls that returned. *)

MaxCalls == 5

\* argument lists of the calls; an argument that is missing is undefined
RotateCalls == { <<I(1)>>, <<I(2)>>, <<>> }
ScaleCalls == { <<I(-1), I(3)>>, <<UNDEF>>, <<I(2), UNDEF>> }
TranslateCalls == { <<I(3), I(-2)>>, <<I(1)>> }
ApplyArgs == { <<I(1), I(2), I(1), I(0), Q(1, 2), I(0)>> }
OriginSet == { <<I(0), I(0)>>, <<I(4), I(-1)>> }

\* pushMatrix that puts the snapshot under the older ones
pushMatrixUnderneath(stack, e) == <<array(e)>> \o stack

\* pub.pushMatrix: the stack afterwards
pushMatrix(stack, e) == Append(stack, array(e))

\* popMatrix that takes the oldest snapshot
popMatrixOldest(stack, e) ==
  IF Len(stack) > 0
  THEN [threw |-> FALSE, elements |-> set(Head(stack)), stack |-> Tail(stack)]
  ELSE [threw |-> TRUE, elements |-> e, stack |-> stack]

\* popMatrix that returns quietly on an empty stack
popMatrixQuiet(stack, e) ==
  IF Len(stack) > 0
  THEN [threw |-> FALSE, elements |-> set(stack[Len(stack)]),
        stack |-> SubSeq(stack, 1, Len(stack) - 1)]
  ELSE [threw |-> FALSE, elements |-> e, stack |-> stack]

\* pub.popMatrix
popMatrix(stack, e) ==
  IF Len(stack) > 0
  THEN [threw |-> FALSE, elements |-> set(stack[Len(stack)]),
        stack |-> SubSeq(stack, 1, Len(stack) - 1)]
  ELSE [threw |-> TRUE, elements |-> e, stack |-> stack]

\* translate that takes a missing coordinate as 0
pubTranslateDefaulting(e, arguments) ==
  [threw |-> FALSE,
   elements |-> translate(e, IF Arg(arguments, 0) = UNDEF THEN I(0) ELSE Arg(arguments, 0),
                             IF Arg(arguments, 1) = UNDEF THEN I(0) ELSE Arg(arguments, 1))]

\* pub.translate: throws when a coordinate is undefined
pubTranslate(e, arguments) ==
  IF Arg(arguments, 0) = UNDEF \/ Arg(arguments, 1) = UNDEF
  THEN [threw |-> TRUE, elements |-> e]
  ELSE [threw |-> FALSE, elements |-> translate(e, Arg(arguments, 0), Arg(arguments, 1))]

\* pub.rotate: throws when the angle is undefined
pubRotate(e, arguments) ==
  IF Arg(arguments, 0) = UNDEF
  THEN [threw |-> TRUE, elements |-> e]
  ELSE [threw |-> FALSE, elements |-> rotate(e, Arg(arguments, 0))]

\* pub.scale: throws when a factor that was passed is not a number
pubScale(e, arguments) ==
  IF ~IsNumber(Arg(arguments, 0)) \/ (Len(arguments) = 2 /\ ~IsNumber(Arg(arguments, 1)))
  THEN [threw |-> TRUE, elements |-> e]
  ELSE [threw |-> FALSE, elements |-> scale(e, Arg(arguments, 0), Arg(arguments, 1))]

\* pub.applyMatrix
applyMatrix(e, m) == apply(e, m)

\* resetMatrix that leaves the identity, without the standing origin
resetMatrixToIdentity(ox, oy) == [threw |-> FALSE, elements |-> IdentityElements]

\* pub.resetMatrix: a new Matrix2D, translated by the standing origin
resetMatrix(ox, oy) == pubTranslate(IdentityElements, <<ox, oy>>)

Called(op, arg, threw, e) ==
  /\ calls' = IF threw THEN calls ELSE calls + 1
  /\ last' = [op |-> op, arg |-> arg, threw |-> threw, pre |-> currMatrix]
  /\ currMatrix' = e
  /\ UNCHANGED <<currOriginX, currOriginY, matrixVars, itemVars, envVars>>

PushMatrix ==
  /\ calls < MaxCalls
  /\ matrixStack' = pushMatrix(matrixStack, currMatrix)
  /\ pushedAt' = Append(pushedAt, currMatrix)
  /\ Called("pushMatrix", <<>>, FALSE, currMatrix)

PopMatrix ==
  /\ calls < MaxCalls
  /\ LET r == popMatrix(matrixStack, currMatrix)
         n == Len(pushedAt)
     IN /\ matrixStack' = r.stack
        /\ pushedAt' = IF n > 0 THEN SubSeq(pushedAt, 1, n - 1) ELSE pushedAt
        /\ Called("popMatrix", IF n > 0 THEN <<pushedAt[n]>> ELSE <<>>, r.threw, r.elements)

ResetMatrix ==
  /\ calls < MaxCalls
  /\ LET r == resetMatrix(currOriginX, currOriginY)
     IN /\ matrixStack' = <<>>
        /\ pushedAt' = <<>>
        /\ Called("resetMatrix", <<>>, r.threw, r.elements)

Rotate ==
  /\ calls < MaxCalls
  /\ \E a \in RotateCalls :
       LET r == pubRotate(currMatrix, a)
       IN Called("rotate", a, r.threw, r.elements)
  /\ UNCHANGED <<matrixStack, pushedAt>>

Scale ==
  /\ calls < MaxCalls
  /\ \E a \in ScaleCalls :
       LET r == pubScale(currMatrix, a)
       IN Called("scale", a, r.threw, r.elements)
  /\ UNCHANGED <<matrixStack, pushedAt>>

Translate ==
  /\ calls < MaxCalls
  /\ \E a \in TranslateCalls :
       LET r == pubTranslate(currMatrix, a)
       IN Called("translate", a, r.threw, r.elements)
  /\ UNCHANGED <<matrixStack, pushedAt>>

ApplyMatrix ==
  /\ calls < MaxCalls
  /\ \E m \in ApplyArgs : Called("applyMatrix", <<m>>, FALSE, applyMatrix(currMatrix, m))
  /\ UNCHANGED <<matrixStack, pushedAt>>

Init ==
  /\ \E o \in OriginSet :
       /\ currOriginX = o[1]
       /\ currOriginY = o[2]
       /\ currMatrix = resetMatrix(o[1], o[2]).elements
  /\ matrixStack = <<>>
  /\ pushedAt = <<>>
  /\ last = NoCall
  /\ calls = 0
  /\ MatrixIdle
  /\ ItemIdle
  /\ EnvIdle

Next ==
  \/ PushMatrix
  \/ PopMatrix
  \/ ResetMatrix
  \/ Rotate
  \/ Scale
  \/ Translate
  \/ ApplyMatrix

Spec == Init /\ [][Next]_vars

-----------------------------------------------------------------------------
(* matrix(m) and the object the current matrix is.  The caller holds one
   Matrix2D, m (recv); currRef says which object currMatrix refers to.  A
   function that changes the current matrix in place changes m when m is that
   object; resetMatrix() makes a new object. *)

MaxAliasCalls == 4

\* the arguments of matrix(): the caller's m, a Matrix2D made for the call,
\* nothing, an array
MatrixArgs ==
  { <<"m">>, <<"other", <<I(2), I(0), I(0), I(0), I(2), I(0)>>>>, <<"none">>, <<"array">> }

\* matrix(m) that copies the coefficients of m into the current matrix
matrixCopies(a, ref, e, held) ==
  CASE a[1] = "m" -> [ref |-> ref, elements |-> set(array(held))]
    [] a[1] = "other" -> [ref |-> ref, elements |-> set(array(a[2]))]
    [] OTHER -> [ref |-> ref, elements |-> e]

\* pub.matrix: the object currMatrix refers to afterwards, and its elements
matrix(a, ref, e, held) ==
  CASE a[1] = "m" -> [ref |-> "m", elements |-> held]
    [] a[1] = "other" -> [ref |-> "other", elements |-> a[2]]
    [] OTHER -> [ref |-> ref, elements |-> e]

\* the functions that change the current matrix object in place
InPlaceCalls ==
  { <<"rotate", <<I(1)>>>>, <<"rotate", <<>>>>, <<"scale", <<I(2), I(3)>>>>,
    <<"translate", <<I(3), I(-2)>>>>,
    <<"applyMatrix", <<<<I(1), I(2), I(1), I(0), Q(1, 2), I(0)>>>>>> }

inPlace(op, a, e) ==
  CASE op = "rotate" -> pubRotate(e, a)
    [] op = "scale" -> pubScale(e, a)
    [] op = "translate" -> pubTranslate(e, a)
    [] op = "applyMatrix" -> [threw |-> FALSE, elements |-> applyMatrix(e, a[1])]

\* a call that ends with the current matrix e, the stack stack and the current
\* object ref; inplace says that the object was changed, not replaced
AliasCalled(op, arg, threw, e, stack, ref, inplace) ==
  /\ calls' = IF threw THEN calls ELSE calls + 1
  /\ last' = [op |-> op, arg |-> arg, threw |-> threw, pre |-> currMatrix]
  /\ currMatrix' = e
  /\ matrixStack' = stack
  /\ pushedAt' = stack
  /\ currRef' = ref
  /\ recv' = IF inplace /\ currRef = "m" THEN e ELSE recv
  /\ UNCHANGED <<currOriginX, currOriginY, recv0, operand, method, ret, itemVars, envVars>>

AliasMatrix ==
  /\ calls < MaxAliasCalls
  /\ \E a \in MatrixArgs :
       \E r \in {matrix(a, currRef, currMatrix, recv)} :
         /\ installs' = IF a[1] \in {"m", "other"} THEN Append(installs, a[1]) ELSE installs
         /\ AliasCalled("matrix", a, FALSE, r.elements, matrixStack, r.ref, FALSE)

AliasInPlace ==
  /\ calls < MaxAliasCalls
  /\ \E c \in InPlaceCalls :
       \E r \in {inPlace(c[1], c[2], currMatrix)} :
         AliasCalled(c[1], c[2], r.threw, r.elements, matrixStack, currRef, TRUE)
  /\ UNCHANGED installs

AliasPushMatrix ==
  /\ calls < MaxAliasCalls
  /\ AliasCalled("pushMatrix", <<>>, FALSE, currMatrix, pushMatrix(matrixStack, currMatrix),
                 currRef, FALSE)
  /\ UNCHANGED installs

AliasPopMatrix ==
  /\ calls < MaxAliasCalls
  /\ \E r \in {popMatrix(matrixStack, currMatrix)} :
       AliasCalled("popMatrix", <<>>, r.threw, r.elements, r.stack, currRef, TRUE)
  /\ UNCHANGED installs

AliasResetMatrix ==
  /\ calls < MaxAliasCalls
  /\ installs' = <<>>
  /\ AliasCalled("resetMatrix", <<>>, FALSE, resetMatrix(currOriginX, currOriginY).elements,
                 <<>>, "own", FALSE)

\* the caller changes its object: m.translate(1, 2)
AliasCallerTranslates ==
  /\ calls < MaxAliasCalls
  /\ \E e \in {translate(recv, I(1), I(2))} :
       /\ recv' = e
       /\ currMatrix' = IF currRef = "m" THEN e ELSE currMatrix
  /\ calls' = calls + 1
  /\ last' = [op |-> "m.translate", arg |-> <<I(1), I(2)>>, threw |-> FALSE, pre |-> currMatrix]
  /\ UNCHANGED <<matrixStack, pushedAt, currOriginX, currOriginY, recv0, operand, method, ret,
                 aliasVars, itemVars, envVars>>

\* the other calls by which the caller changes its object
CallerCalls ==
  { <<"m.invTranslate", <<I(1), I(2)>>>>,
    <<"m.set", <<I(2), I(0), I(1), I(0), I(2), I(1)>>>>,
    <<"m.set", <<"Array", <<I(1), I(2)>>>>>>,
    <<"m.reset", <<>>>>,
    <<"m.scale", <<I(2), I(3)>>>>,
    <<"m.rotate", <<I(1)>>>>,
    <<"m.invert", <<>>>> }
CallerOps == { c[1] : c \in CallerCalls }

\* the elements of the caller's object after the call
callerStep(op, a, e) ==
  CASE op = "m.invTranslate" -> invTranslate(e, a[1], a[2])
    [] op = "m.set" -> setArgs(e, a)
    [] op = "m.reset" -> set(IdentityElements)
    [] op = "m.scale" -> scale(e, a[1], a[2])
    [] op = "m.rotate" -> rotate(e, a[1])
    [] op = "m.invert" -> invert(e).elements

\* the caller changes its object: m.invTranslate(1, 2), m.set(2, 0, 1, 0, 2, 1),
\* m.set([1, 2]), m.reset(), m.scale(2, 3), m.rotate(angle), m.invert()
AliasCallerChanges ==
  /\ calls < MaxAliasCalls
  /\ \E c \in CallerCalls :
       /\ \E e \in {callerStep(c[1], c[2], recv)} :
            /\ recv' = e
            /\ currMatrix' = IF currRef = "m" THEN e ELSE currMatrix
       /\ last' = [op |-> c[1], arg |-> c[2], threw |-> FALSE, pre |-> currMatrix]
  /\ calls' = calls + 1
  /\ UNCHANGED <<matrixStack, pushedAt, currOriginX, currOriginY, recv0, operand, method, ret,
                 aliasVars, itemVars, envVars>>

InitAlias ==
  /\ \E o \in OriginSet :
       /\ currOriginX = o[1]
       /\ currOriginY = o[2]
       /\ currMatrix = resetMatrix(o[1], o[2]).elements
  /\ matrixStack = <<>>
  /\ pushedAt = <<>>
  /\ last = NoCall
  /\ calls = 0
  /\ recv \in { IdentityElements, <<I(0), I(-1), I(5), I(1), I(0), I(0)>> }
  /\ recv0 = IdentityElements
  /\ operand = IdentityElements
  /\ method = "none"
  /\ ret = UNDEF
  /\ currRef = "own"
  /\ installs = <<>>
  /\ ItemIdle
  /\ EnvIdle

NextAlias ==
  \/ AliasMatrix
  \/ AliasInPlace
  \/ AliasPushMatrix
  \/ AliasPopMatrix
  \/ AliasResetMatrix
  \/ AliasCallerTranslates
  \/ AliasCallerChanges

SpecAlias == InitAlias /\ [][NextAlias]_vars

-----------------------------------------------------------------------------
(* The calls that reset the coordinate system: canvasMode(m), units(u), and
   the calls that set or drop the current document: doc(d), revert(),
   drawMode(mode), close().  All but close() end in updatePublicPageSizeVars(),
   which reads the current page of the host and calls resetMatrix() and
   translate(); close() ends in resetCurrDoc(), and the next call that needs
   a document sets one. *)

MaxEnvCalls == 2

CanvasModes == {"page", "margin", "bleed", "facing_pages", "facing_margins", "facing_bleeds"}
\* the arguments of canvasMode(m): the modes, and a string that is none
CanvasModeArgs == CanvasModes \cup {"pasteboard"}

\* the arguments of units(u): the names, the host's enumerator for
\* millimetres, an enumerator of the host for a unit that is not supported,
\* and a string that is none
UnitNames == {"pt", "mm", "cm", "inch", "px"}
UnitArgs == UnitNames \cup {"MeasurementUnits.MILLIMETERS", "MeasurementUnits.PICAS", "furlong"}

\* the current pages a document can have
HostPages ==
  { SinglePage,
    [SinglePage EXCEPT !.facingPages = TRUE, !.rightHand = TRUE, !.name1 = TRUE],
    [SinglePage EXCEPT !.facingPages = TRUE, !.rightHand = FALSE, !.name1 = FALSE],
    [SinglePage EXCEPT !.facingPages = TRUE, !.rightHand = TRUE, !.name1 = FALSE] }

\* the first page of a document, which is the current page after the
\* document was added or opened: it has the name 1, and is a right-hand page
\* when the pages are facing
FirstPages == { pg \in HostPages : pg.name1 }

\* pub.translate(tx, ty) after calls that returned r
ThenTranslate(r, tx, ty) ==
  With(r, LAMBDA r0 :
    IF r0.threw THEN r0
    ELSE With(pubTranslate(r0.elements, <<tx, ty>>), LAMBDA t :
           [threw |-> t.threw, elements |-> t.elements, stack |-> r0.stack]))

\* pub.resetMatrix() inside another function: the stack is replaced, too
ThenReset(ox, oy) ==
  With(resetMatrix(ox, oy), LAMBDA r :
    [threw |-> FALSE, elements |-> r.elements, stack |-> <<>>])

\* updatePublicPageSizeVars that leaves the stack alone
updatePublicPageSizeVarsKeepsStack(mode, page, e, stack, ox, oy) ==
  [threw |-> FALSE, elements |-> resetMatrix(ox, oy).elements, stack |-> stack]

\* updatePublicPageSizeVars: whether it threw, the current matrix and the stack
\* afterwards
updatePublicPageSizeVars(mode, page, e, stack, ox, oy) ==
  With(ThenReset(ox, oy), LAMBDA reset :
  LET pw == page.width
  IN CASE mode = "page" -> reset
       [] mode = "margin" -> ThenTranslate(reset, page.marginLeft, page.marginTop)
       [] mode = "bleed" ->
            IF page.facingPages /\ page.rightHand
            THEN ThenTranslate(reset, I(0), Neg(page.bleedTop))
            ELSE ThenTranslate(reset, Neg(page.bleedLeft), Neg(page.bleedTop))
       [] mode = "facing_pages" ->
            IF page.name1 THEN reset
            ELSE IF page.rightHand THEN ThenTranslate(reset, Neg(pw), I(0))
            ELSE reset
       [] mode = "facing_bleeds" ->
            LET widthOffset == Add(page.bleedLeft, page.bleedRight)
                w == Add(pw, Div(widthOffset, I(2)))
                r == ThenTranslate(reset, Neg(page.bleedLeft), Neg(page.bleedTop))
            IN IF page.rightHand
               THEN ThenTranslate(r, Add(Neg(w), Div(widthOffset, I(2))), I(0))
               ELSE r
       [] mode = "facing_margins" ->
            LET widthOffset == Add(page.marginLeft, page.marginRight)
                w == Sub(pw, Div(widthOffset, I(2)))
                r == ThenTranslate(reset, page.marginLeft, page.marginTop)
            IN IF page.rightHand
               THEN ThenTranslate(r, Sub(Neg(w), Div(widthOffset, I(2))), I(0))
               ELSE r
       [] OTHER -> [threw |-> TRUE, elements |-> e, stack |-> stack])

\* pub.canvasMode(m)
canvasMode(m, mode, page, e, stack, ox, oy) ==
  IF m \in CanvasModes
  THEN With(updatePublicPageSizeVars(m, page, e, stack, ox, oy), LAMBDA r :
         [threw |-> r.threw, elements |-> r.elements, stack |-> r.stack, mode |-> m])
  ELSE [threw |-> TRUE, elements |-> e, stack |-> stack, mode |-> mode]

\* pub.units(u): the unit that is set, or none when the argument is refused
unitOf(u) ==
  CASE u = "pt" -> "pt"
    [] u = "mm" \/ u = "MeasurementUnits.MILLIMETERS" -> "mm"
    [] u = "cm" -> "cm"
    [] u = "inch" -> "inch"
    [] u = "px" -> "px"
    [] u = "MeasurementUnits.PICAS" -> "pt"
    [] OTHER -> "none"

units(u, unit, mode, page, e, stack, ox, oy) ==
  IF unitOf(u) = "none"
  THEN [threw |-> TRUE, elements |-> e, stack |-> stack, unit |-> unit]
  ELSE With(updatePublicPageSizeVars(mode, page, e, stack, ox, oy), LAMBDA r :
         [threw |-> r.threw, elements |-> r.elements, stack |-> r.stack, unit |-> unitOf(u)])

\* setCurrDoc(doc): resetCurrDoc(), units(MM), updatePublicPageSizeVars()
setCurrDoc(unit, mode, page, e, stack, ox, oy) ==
  With(ThenReset(ox, oy), LAMBDA r0 :
    With(units("mm", unit, mode, page, r0.elements, r0.stack, ox, oy), LAMBDA r1 :
      IF r1.threw THEN r1
      ELSE With(updatePublicPageSizeVars(mode, page, r1.elements, r1.stack, ox, oy), LAMBDA r2 :
             [threw |-> r2.threw, elements |-> r2.elements, stack |-> r2.stack,
              unit |-> r1.unit])))

\* the pages that can be the active page of the document that currentDoc()
\* finds: the current one while currDoc is set, any page when a document has
\* to be found or made
ActivePages == IF currDoc = "set" THEN {hostPage} ELSE HostPages

\* currentDoc(): setCurrDoc() on the document found when currDoc is null
currentDoc(doc, unit, mode, pg, e, stack, ox, oy) ==
  IF doc = "set"
  THEN [threw |-> FALSE, elements |-> e, stack |-> stack, unit |-> unit]
  ELSE setCurrDoc(unit, mode, pg, e, stack, ox, oy)

\* the states of the host's document that revert() and drawMode() read: not
\* saved and not modified, not saved and modified with a save dialog that the
\* user cancels, saved and modified, saved and not modified.  A document that
\* is not saved, modified, and saved when asked to, goes the way of a saved one
\* in drawMode() and the way of a fresh one in revert().
DocStates == {"fresh", "cancelled", "savedModified", "saved"}

\* the arguments of drawMode(mode) with the state of the host's document
DrawModeCalls ==
  { <<mode, d>> : mode \in {"MODEVISIBLE", "MODEHIDDEN", "MODESILENT"},
                  d \in {"fresh", "cancelled", "saved"} }
    \cup { <<"bogus", "saved">> }

\* pub.revert(): whether the document is closed and another one set
reverts(docState) == docState # "saved"

\* pub.drawMode(mode): "throws", "sets" (a document is set with setCurrDoc) or
\* "keeps"
DrawModes == {"MODEVISIBLE", "MODEHIDDEN", "MODESILENT"}
drawMode(mode, doc, mode0, docState) ==
  IF mode \notin DrawModes THEN "throws"
  ELSE IF doc = "null"
  THEN (IF mode = "MODEHIDDEN" /\ docState = "cancelled" THEN "throws" ELSE "sets")
  ELSE IF docState = "fresh" THEN "sets"
  ELSE IF mode = "MODEHIDDEN" /\ mode0 # "MODEHIDDEN"
  THEN (IF docState = "cancelled" THEN "throws" ELSE "sets")
  ELSE "keeps"

\* the arguments of close(saveOptions): false, nothing, a string
CloseArgs == {<<"false">>, <<>>, <<"maybe">>}

EnvCalledCounting(op, arg, r, n) ==
  /\ calls' = calls + n
  /\ last' = [op |-> op, arg |-> arg, threw |-> r.threw, pre |-> currMatrix]
  /\ currMatrix' = r.elements
  /\ matrixStack' = r.stack
  /\ pushedAt' = r.stack
  /\ dropped' = IF r.threw /\ r.stack = matrixStack THEN dropped
                 ELSE Len(matrixStack) - Len(r.stack)
  /\ UNCHANGED <<currOriginX, currOriginY, matrixVars,
                 pItem, prefs, currRefPoint, refSet, pageTopLeft, tlast, writes>>

EnvCalled(op, arg, r) == EnvCalledCounting(op, arg, r, IF r.threw THEN 0 ELSE 1)

\* the call threw before it changed anything
EnvThrew(op, arg) ==
  /\ EnvCalled(op, arg, [threw |-> TRUE, elements |-> currMatrix, stack |-> matrixStack])
  /\ UNCHANGED <<currCanvasMode, currUnits, hostPage, docVars>>

\* the call returned and left everything as it was
EnvKept(op, arg) ==
  /\ EnvCalled(op, arg, [threw |-> FALSE, elements |-> currMatrix, stack |-> matrixStack])
  /\ UNCHANGED <<currCanvasMode, currUnits, hostPage, docVars>>

\* a document is set by setCurrDoc(), its active page is pg
EnvSetCurrDoc(op, arg, pg) ==
  \E r \in {setCurrDoc(currUnits, currCanvasMode, pg, currMatrix, matrixStack,
                       currOriginX, currOriginY)} :
    /\ hostPage' = pg
    /\ currUnits' = r.unit
    /\ currDoc' = "set"
    /\ currPage' = "set"
    /\ currImageMode' = "corner"
    /\ EnvCalled(op, arg, r)

\* what currentDoc() leaves of the document part: resetCurrDoc() has run when
\* there was no current document
Found(pg) ==
  /\ hostPage' = pg
  /\ currDoc' = "set"
  /\ currPage' = "set"
  /\ currImageMode' = IF currDoc = "set" THEN currImageMode ELSE "corner"
  /\ currMode' = currMode

CanvasModeCalled(args) ==
  \E m \in args :
     IF m \notin CanvasModes
     THEN EnvThrew("canvasMode", <<m>>)
     ELSE IF currDoc = "null" /\ currPage = "set"
     THEN \* updatePublicPageSizeVars() has a page and reads currDoc, which is null
          /\ currCanvasMode' = m
          /\ EnvCalled("canvasMode", <<m>>,
                       [threw |-> TRUE, elements |-> currMatrix, stack |-> matrixStack])
          /\ UNCHANGED <<currUnits, hostPage, docVars>>
     ELSE \E pg \in ActivePages :
          \E r0 \in {currentDoc(currDoc, currUnits, m, pg, currMatrix, matrixStack,
                                currOriginX, currOriginY)} :
          \E r \in {canvasMode(m, currCanvasMode, pg, r0.elements, r0.stack,
                               currOriginX, currOriginY)} :
            /\ currCanvasMode' = r.mode
            /\ currUnits' = r0.unit
            /\ Found(pg)
            /\ EnvCalled("canvasMode", <<m>>, r)

CanvasMode == calls < MaxEnvCalls /\ CanvasModeCalled(CanvasModeArgs)

Units ==
  /\ calls < MaxEnvCalls
  /\ \E u \in UnitArgs :
       IF unitOf(u) = "none"
       THEN EnvThrew("units", <<u>>)
       ELSE \E pg \in ActivePages :
            \E r0 \in {currentDoc(currDoc, currUnits, currCanvasMode, pg, currMatrix,
                                  matrixStack, currOriginX, currOriginY)} :
            \E r \in {units(u, r0.unit, currCanvasMode, pg, r0.elements, r0.stack,
                            currOriginX, currOriginY)} :
              /\ currUnits' = r.unit
              /\ Found(pg)
              /\ EnvCalled("units", <<u>>, r)
  /\ UNCHANGED currCanvasMode

\* doc(d) with a document d, whose active page is drawn, and doc().  The
\* arguments recorded for doc() and close() end with currDoc before the call,
\* the ones recorded for drawMode() with what the call did.
Doc ==
  /\ calls < MaxEnvCalls
  /\ \/ \E pg \in HostPages : EnvSetCurrDoc("doc", <<"document">>, pg)
     \/ /\ currDoc = "set"
        /\ EnvKept("doc", <<"none", "set">>)
     \/ /\ currDoc = "null"
        /\ \E pg \in HostPages : EnvSetCurrDoc("doc", <<"none", "null">>, pg)
  /\ UNCHANGED <<currCanvasMode, currMode>>

\* revert(): the state of the host's document is drawn; without a current
\* document the read of currDoc.saved throws.  The document that was saved
\* is opened again with any page active, a document that was not saved is
\* replaced by a new one.
Revert ==
  /\ calls < MaxEnvCalls
  /\ \E d \in DocStates \ {"cancelled"} :
       IF currDoc = "null" THEN EnvThrew("revert", <<d>>)
       ELSE IF reverts(d)
       THEN /\ \E pg \in IF d = "savedModified" THEN HostPages ELSE FirstPages :
                 EnvSetCurrDoc("revert", <<d>>, pg)
            /\ UNCHANGED <<currCanvasMode, currMode>>
       ELSE EnvKept("revert", <<d>>)

\* close(saveOptions)
CloseCalled ==
  \E a \in CloseArgs :
     IF currDoc = "null" THEN EnvKept("close", <<a, "null">>)
     ELSE IF a = <<"maybe">> THEN EnvThrew("close", <<a, "set">>)
     ELSE \E r \in {ThenReset(currOriginX, currOriginY)} :
            /\ currDoc' = "null"
            /\ currPage' = "null"
            /\ currImageMode' = "corner"
            /\ EnvCalled("close", <<a, "set">>, r)
            /\ UNCHANGED <<currCanvasMode, currUnits, hostPage, currMode>>

Close == calls < MaxEnvCalls /\ CloseCalled

\* drawMode(mode): the state of the host's document is drawn
DrawMode ==
  /\ calls < MaxEnvCalls
  /\ \E c \in DrawModeCalls :
       \E what \in {drawMode(c[1], currDoc, currMode, c[2])} :
         CASE what = "throws" -> EnvThrew("drawMode", <<c[1], c[2], what>>)
           [] what = "keeps" ->
                /\ currMode' = c[1]
                /\ EnvCalled("drawMode", <<c[1], c[2], what>>,
                             [threw |-> FALSE, elements |-> currMatrix, stack |-> matrixStack])
                /\ UNCHANGED <<currCanvasMode, currUnits, hostPage, currDoc, currPage,
                               currImageMode>>
           [] what = "sets" ->
                /\ currMode' = c[1]
                /\ \E pg \in IF currDoc = "set" THEN FirstPages ELSE HostPages :
                     EnvSetCurrDoc("drawMode", <<c[1], c[2], what>>, pg)
                /\ UNCHANGED currCanvasMode

\* the state after init(): setCurrDoc() has set millimetres
InitEnv ==
  /\ \E o \in OriginSet :
       /\ currOriginX = o[1]
       /\ currOriginY = o[2]
       /\ currMatrix = resetMatrix(o[1], o[2]).elements
  /\ matrixStack = <<>>
  /\ pushedAt = <<>>
  /\ last = NoCall
  /\ calls = 0
  /\ MatrixIdle
  /\ ItemIdle
  /\ currCanvasMode = "page"
  /\ hostPage \in HostPages
  /\ dropped = 0
  /\ DocIdle

NextEnv ==
  \/ PushMatrix
  \/ PopMatrix
  \/ Translate
  \/ CanvasMode
  \/ Units
  \/ Doc
  \/ Revert
  \/ Close
  \/ DrawMode

SpecEnv == InitEnv /\ [][NextEnv]_vars

-----------------------------------------------------------------------------
(* page() and the functions that call it.  The pages of the document are the
   host's: a page that a call selects (page n, a Page object, the parent page
   of an item, the next, the previous, the added page, the page that is
   current after a removal) is drawn from the pages a document of the same
   kind can have. *)

\* the pages of the document hostPage belongs to
\* the pages of the document that page is a page of: they are all facing or
\* all single, and the bleed and the page width are the document's
PagesOf(page) ==
  { [pg EXCEPT !.bleedLeft = page.bleedLeft, !.bleedRight = page.bleedRight,
               !.bleedTop = page.bleedTop, !.width = page.width] :
      pg \in { h \in HostPages : h.facingPages = page.facingPages } }

\* the arguments of page(page): none, a Page, a PageItem on a page, the number
\* of a page, a number past the last page, a string
PageArgs(page) ==
  {<<"none">>, <<"missing">>, <<"string">>, <<"item", page>>}
    \cup { <<k, pg>> : k \in {"page", "number"}, pg \in PagesOf(page) }

\* the library's document state at one point of a call: currDoc, currPage and
\* the page it refers to, currUnits, currImageMode, the current matrix and the
\* stack, whether the call has thrown, and the page that was current at the
\* last reset (seen)
Library ==
  [doc |-> currDoc, cp |-> currPage, page |-> hostPage, unit |-> currUnits,
   img |-> currImageMode, elements |-> currMatrix, stack |-> matrixStack,
   threw |-> FALSE, seen |-> hostPage]

\* currentDoc() after the calls that left s0: without a current document the
\* document found or made is set with setCurrDoc(), and its active page act
\* is the current page
thenCurrentDoc(s0, act, mode, ox, oy) ==
  With(s0, LAMBDA s :
    IF s.threw \/ s.doc = "set" THEN s
    ELSE With(currentDoc(s.doc, s.unit, mode, act, s.elements, s.stack, ox, oy), LAMBDA r :
           [s EXCEPT !.doc = "set", !.cp = "set", !.page = act, !.seen = act,
                     !.unit = r.unit, !.img = "corner", !.elements = r.elements,
                     !.stack = r.stack, !.threw = r.threw]))

\* currentPage(): without a current page, currentDoc() and the active page
thenCurrentPage(s0, act, mode, ox, oy) ==
  With(s0, LAMBDA s :
    IF s.threw \/ s.cp = "set" THEN s
    ELSE With(thenCurrentDoc(s, act, mode, ox, oy), LAMBDA t :
           IF t.threw THEN t ELSE [t EXCEPT !.cp = "set", !.page = act]))

\* updatePublicPageSizeVars(): currentPage(), then the read of
\* currDoc.documentPreferences, which throws when currDoc is null, then the
\* reset for the canvas mode
thenUpdatePublicPageSizeVars(s, act, mode, ox, oy) ==
  With(thenCurrentPage(s, act, mode, ox, oy), LAMBDA t :
    IF t.threw THEN t
    ELSE IF t.doc = "null" THEN [t EXCEPT !.threw = TRUE]
    ELSE With(updatePublicPageSizeVars(mode, t.page, t.elements, t.stack, ox, oy), LAMBDA r :
           [t EXCEPT !.threw = r.threw, !.elements = r.elements, !.stack = r.stack,
                     !.seen = t.page]))

\* the head of page(page): currPage is set from the argument; a number is
\* looked up in currentDoc().pages
pageArgument(a, s0, act, mode, ox, oy) ==
  With(s0, LAMBDA s :
    CASE a[1] = "none" -> s
      [] a[1] \in {"page", "item"} -> [s EXCEPT !.cp = "set", !.page = a[2]]
      [] a[1] \in {"number", "missing"} ->
           With(thenCurrentDoc(s, act, mode, ox, oy), LAMBDA t :
             IF t.threw \/ a[1] = "missing" THEN [t EXCEPT !.threw = TRUE]
             ELSE [t EXCEPT !.cp = "set", !.page = a[2]])
      [] a[1] = "string" -> [s EXCEPT !.threw = TRUE])

\* page() that only returns the current page when it is called without argument
pageGetterOnlyReturns(a, s0, act, mode, ox, oy) ==
  With(s0, LAMBDA s :
    IF s.threw \/ a[1] = "none" THEN s
    ELSE thenUpdatePublicPageSizeVars(pageArgument(a, s, act, mode, ox, oy),
                                      act, mode, ox, oy))

\* pub.page(page) after the calls that left s0
pubPage(a, s0, act, mode, ox, oy) ==
  With(s0, LAMBDA s :
    IF s.threw THEN s
    ELSE thenUpdatePublicPageSizeVars(pageArgument(a, s, act, mode, ox, oy),
                                      act, mode, ox, oy))

\* the margins of a page after margins(top) has set them
WithMargins(pg, v) == [pg EXCEPT !.marginTop = v, !.marginRight = v, !.marginLeft = v]

\* a margin, in the current units
MarginArgs == { I(2) }

\* the bleed of the document after bleeds(top, right, bottom, left)
WithBleeds(pg, top, right, left) ==
  [pg EXCEPT !.bleedTop = top, !.bleedRight = right, !.bleedLeft = left]

\* the arguments of bleeds(): none, one value, four values (top, right, left;
\* the bottom bleed is not read by any canvas mode)
BleedArgs == {<<"none">>, <<"set", I(5)>>, <<"set", I(2), I(3), I(1)>>}

\* the arguments of size(): none, width and height, one number for both, the
\* name of a page size with the width that the host has for it, a name that
\* the host does not know; and a call with numbers while the host has no
\* document open
SizeArgs ==
  { <<"none">>, <<"numbers", I(50), I(30)>>, <<"number", I(50)>>,
    <<"preset", I(30)>>, <<"noPreset">>, <<"noDocuments">> }

\* the arguments of pageCount(): none, a count that keeps the current page,
\* a value that is no count
PageCountArgs == { <<"none">>, <<"count">>, <<"bad">> }

\* the calls of the functions built on page(): the name and the arguments.
\* A page in the arguments is the page the host hands back: the next, the
\* previous or the added page, the page with the number given, the page that
\* is active after a page was removed (the last one of the arguments).
PageOpCalls(pg0) ==
  { <<"page", a>> : a \in PageArgs(pg0) }
    \cup { <<"nextPage", <<"page", pg>>>> : pg \in PagesOf(pg0) }
    \cup { <<"previousPage", <<"page", pg0>>>> }
    \cup { <<"addPage", <<"AT_END", pg>>>> : pg \in PagesOf(pg0) }
    \cup { <<"addPage", <<"AFTER", pg0>>>>, <<"addPage", <<"bogus">>>> }
    \cup { <<"removePage", <<"none", pg0>>>>, <<"removePage", <<"page", pg0, pg0>>>> }
    \cup { <<"removePage", <<"number", pgN, pg0>>>> : pgN \in PagesOf(pg0) }
    \cup { <<"removePage", <<"string">>>> }
    \cup { <<"pageNumber", a>> : a \in {<<"none">>, <<"page", pg0>>, <<"number">>} }
    \cup { <<"margins", <<"none">>>> }
    \cup { <<"margins", <<"set", v>>>> : v \in MarginArgs }
    \cup { <<"margins", <<"setOn", v, pg0>>>> : v \in MarginArgs }
    \cup { <<"bleeds", a>> : a \in BleedArgs }
    \cup { <<"size", a>> : a \in SizeArgs }
    \cup { <<"pageCount", a>> : a \in PageCountArgs }

\* the calls of page() that a function makes, in their order: the arguments
PageCallsOf(op, a) ==
  CASE op \in {"page", "nextPage", "previousPage"} -> <<a>>
    [] op = "addPage" /\ a[1] = "AFTER" -> << <<"none">>, <<"page", a[2]>> >>
    [] op = "addPage" /\ a[1] = "AT_END" -> << <<"page", a[2]>> >>
    [] op = "removePage" /\ a[1] = "none" -> << <<"none">> >>
    [] op = "removePage" /\ a[1] \in {"number", "page"} -> << <<a[1], a[2]>> >>
    [] op = "pageNumber" /\ a[1] = "none" -> << <<"none">> >>
    [] op = "margins" /\ a[1] = "none" -> << <<"none">> >>
    \* the last call of page(pageNumber) finds the top and the right margin set
    [] op = "margins" /\ a[1] = "setOn" ->
         << <<"number", [a[3] EXCEPT !.marginTop = a[2], !.marginRight = a[2]]>> >>
    [] OTHER -> <<>>

\* the function throws before it has called anything
ThrowsFirst(op, a) ==
  \/ op = "addPage" /\ a[1] = "bogus"
  \/ op = "removePage" /\ a[1] = "string"
  \/ op = "pageNumber" /\ a[1] = "number"
  \/ op = "pageCount" /\ a[1] = "bad"

\* the function calls currentDoc() before it calls page(): pub.doc() in
\* nextPage() and previousPage(), currentDoc().pages in addPage(), and
\* bleeds(), size() with arguments, pageCount()
DocFirst(op, a) ==
  \/ op \in {"nextPage", "previousPage", "addPage", "bleeds", "pageCount"}
  \/ op = "size" /\ a[1] \notin {"none", "noDocuments"}

\* the calls of page() one after the other
RECURSIVE thenPages(_, _, _, _, _, _)
thenPages(args, s, act, mode, ox, oy) ==
  IF args = <<>> THEN s
  ELSE thenPages(Tail(args), pubPage(Head(args), s, act, mode, ox, oy), act, mode, ox, oy)

\* one call of a function built on page(), or of bleeds(), size() or
\* pageCount(), in the state s; act is the active page of the document that
\* currentDoc() finds
pageOp(op, a, s, act, mode, ox, oy) ==
  IF ThrowsFirst(op, a) THEN [s EXCEPT !.threw = TRUE]
  ELSE With(thenPages(PageCallsOf(op, a),
                      IF DocFirst(op, a) THEN thenCurrentDoc(s, act, mode, ox, oy) ELSE s,
                      act, mode, ox, oy), LAMBDA r :
    IF r.threw THEN r
    ELSE CASE op = "removePage" -> [r EXCEPT !.cp = "set", !.page = a[Len(a)]]
           [] op = "margins" /\ a[1] = "set" ->
                With(thenCurrentPage(r, act, mode, ox, oy), LAMBDA t :
                  IF t.threw THEN t ELSE [t EXCEPT !.page = WithMargins(t.page, a[2])])
           [] op = "margins" /\ a[1] = "setOn" -> [r EXCEPT !.page = WithMargins(a[3], a[2])]
           [] op = "bleeds" /\ a[1] = "set" ->
                IF Len(a) = 2 THEN [r EXCEPT !.page = WithBleeds(r.page, a[2], a[2], a[2])]
                ELSE [r EXCEPT !.page = WithBleeds(r.page, a[2], a[3], a[4])]
           [] op = "size" /\ a[1] = "noPreset" -> [r EXCEPT !.threw = TRUE]
           [] op = "size" /\ a[1] \in {"numbers", "number", "preset"} ->
                [r EXCEPT !.page = [r.page EXCEPT !.width = a[2]]]
           [] OTHER -> r)

\* whether the call reaches page()
CallsPage(op, a) ==
  CASE op \in {"page", "nextPage", "previousPage"} -> TRUE
    [] op = "addPage" -> a[1] # "bogus"
    [] op = "removePage" -> a[1] # "string"
    [] op = "pageNumber" -> a[1] = "none"
    [] op = "margins" -> a[1] # "set"
    [] op \in {"bleeds", "size", "pageCount"} -> FALSE

\* the number of calls in a run that has calls of page()
MaxPageCalls == 3

\* pushMatrix(), popMatrix() and translate(tx, ty) in such a run
PagePushMatrix == calls < MaxPageCalls /\ PushMatrix
PagePopMatrix == calls < MaxPageCalls /\ PopMatrix
PageTranslate == calls < MaxPageCalls /\ Translate

\* canvasMode(m) in such a run: a mode that reads the margins, one that reads
\* the bleed and the side of the page, and a string that is no mode
PageCanvasModeArgs == {"margin", "facing_bleeds", "pasteboard"}
PageCanvasMode == calls < MaxEnvCalls /\ CanvasModeCalled(PageCanvasModeArgs)

\* the calls are made with a current document and, after close(), without one;
\* the host has no document open only while there is no current document
PageOp ==
  /\ calls < MaxEnvCalls
  /\ \E act \in IF currDoc = "set" THEN {hostPage} ELSE FirstPages :
     \E c \in PageOpCalls(act) :
       /\ c[2][1] = "noDocuments" => currDoc = "null"
       /\ \E r \in {pageOp(c[1], c[2], Library, act, currCanvasMode,
                            currOriginX, currOriginY)} :
            /\ hostPage' = r.page
            /\ currDoc' = r.doc
            /\ currPage' = r.cp
            /\ currUnits' = r.unit
            /\ currImageMode' = r.img
            /\ EnvCalledCounting(c[1], <<c[2], r.seen>>, r, 1)
  /\ UNCHANGED <<currCanvasMode, currMode>>

\* the state after init(), with the active page of the document drawn, and
\* the state after init() and close(): resetCurrDoc() has left no current
\* document and no current page
InitPage ==
  /\ \E o \in OriginSet :
       /\ currOriginX = o[1]
       /\ currOriginY = o[2]
       /\ currMatrix = resetMatrix(o[1], o[2]).elements
  /\ matrixStack = <<>>
  /\ pushedAt = <<>>
  /\ last = NoCall
  /\ calls = 0
  /\ MatrixIdle
  /\ ItemIdle
  /\ currCanvasMode = "page"
  /\ hostPage \in HostPages
  /\ dropped = 0
  /\ currDoc \in {"set", "null"}
  /\ currPage = currDoc
  /\ currMode = "MODEVISIBLE"
  /\ currImageMode = "corner"

NextPage ==
  \/ PagePushMatrix
  \/ PagePopMatrix
  \/ PageTranslate
  \/ PageCanvasMode
  \/ Close
  \/ PageOp

SpecPage == InitPage /\ [][NextPage]_vars

-----------------------------------------------------------------------------
(* transform() on one page item.  The item, the reference point, the unit, the
   origin and the reference page are drawn; every action is one call. *)

MaxWrites == 1

ItemSet ==
  { PageItem(I(4), I(2), I(0), I(0), I(0)),
    PageItem(I(3), I(5), I(6), I(1), I(90)),
    PageItem(I(0), I(3), I(2), I(2), I(0)) }

RefPoints == {"topLeft", "topCenter", "topRight", "centerLeft", "center", "centerRight",
              "bottomLeft", "bottomCenter", "bottomRight"}
\* the unit, the origin in that unit, and the top left corner of the reference page
Settings ==
  { [units |-> "pt", origin |-> <<I(0), I(0)>>, pageTopLeft |-> <<I(0), I(0)>>],
    [units |-> "mm", origin |-> <<I(4), I(-1)>>, pageTopLeft |-> <<I(-3), I(1)>>] }

\* the calls that write: type and value
WriteCalls ==
  { <<"width", I(3)>>, <<"width", Q(5, 2)>>,
    <<"height", Q(16, 3)>>,
    <<"size", ARR(I(3), I(1))>>, <<"size", ARR(Q(5, 2), I(4))>>,
    <<"position", ARR(I(1), I(2))>>, <<"position", ARR(Q(7, 2), I(-3))>>,
    <<"x", Q(-1, 4)>>,
    <<"y", I(-2)>>,
    <<"translate", ARR(I(2), I(-1))>>,
    <<"rotate", I(0)>>, <<"rotate", I(90)>>,
    <<"scale", I(2)>>, <<"scale", ARR(I(2), Q(1, 2))>> }

\* the calls that measure, and one with a type that does not exist
MeasureTypes == {"size", "position", "flip"}

World == [item |-> pItem, prefs |-> prefs]
Env == [refPoint |-> currRefPoint, units |-> currUnits,
        originX |-> currOriginX, originY |-> currOriginY, pageTopLeft |-> pageTopLeft]

TransformCalled(type, value) ==
  \E r \in {transform(World, Env, type, value)} :
     /\ pItem' = r.item
     /\ prefs' = r.prefs
     /\ tlast' = [type |-> type, value |-> value, ret |-> r.ret, threw |-> r.threw, pre |-> pItem]
     /\ UNCHANGED <<currRefPoint, refSet, currUnits, pageTopLeft, stackVars, matrixVars, envVars>>

\* transform(pItem, type, value)
TransformWrite ==
  /\ writes < MaxWrites
  /\ writes' = writes + 1
  /\ \E c \in WriteCalls :
       /\ ~DividesByExtent(pItem, Env, c[1], c[2])
       /\ TransformCalled(c[1], c[2])

\* transform(pItem, type)
TransformMeasure ==
  /\ writes' = writes
  /\ \E t \in MeasureTypes : TransformCalled(t, UNDEF)

InitItem ==
  /\ pItem \in ItemSet
  /\ prefs = PrefsAfter
  /\ currRefPoint \in RefPoints
  /\ refSet = currRefPoint
  /\ \E p \in Settings :
       /\ currUnits = p.units
       /\ currOriginX = p.origin[1]
       /\ currOriginY = p.origin[2]
       /\ pageTopLeft = p.pageTopLeft
  /\ tlast = NoTransform
  /\ writes = 0
  /\ currMatrix = IdentityElements
  /\ matrixStack = <<>>
  /\ last = NoCall
  /\ pushedAt = <<>>
  /\ calls = 0
  /\ MatrixIdle
  /\ EnvIdle

NextItem == TransformWrite \/ TransformMeasure

SpecItem == InitItem /\ [][NextItem]_vars

-----------------------------------------------------------------------------
(* transformImage() and imageMode() on one page item.  The item is a frame that
   lies turned by a multiple of 90 degrees; the extents passed are positive. *)

AbsOf(v) == IF Gt(I(0), v) THEN Neg(v) ELSE v

\* the item moved by (dx, dy) points of the spread
MovedBy(item, dx, dy) ==
  [item EXCEPT !.m = <<El(item.m, 0), El(item.m, 1), Add(El(item.m, 2), dx),
                       El(item.m, 3), El(item.m, 4), Add(El(item.m, 5), dy)>>]

\* pItem.geometricBounds = [y1, x1, y2, x2], from the page's top left corner in
\* the ruler's unit: the path of the frame is resized and moved so that its
\* bounding box is the one given; the angles and the scale percentages stay
setGeometricBounds(item, E, b) ==
  LET W == AsPoints(Sub(b[4], b[2]), E.units)
      H == AsPoints(Sub(b[3], b[1]), E.units)
      a == AbsOf(El(item.m, 0))
      c == AbsOf(El(item.m, 1))
      d == AbsOf(El(item.m, 3))
      e == AbsOf(El(item.m, 4))
      det == Sub(Mul(a, e), Mul(c, d))
      sized == [item EXCEPT !.w = Div(Sub(Mul(e, W), Mul(c, H)), det),
                            !.h = Div(Sub(Mul(a, H), Mul(d, W)), det)]
  IN With(SpreadBounds(sized), LAMBDA now :
       MovedBy(sized,
               Sub(Add(E.pageTopLeft[1], AsPoints(b[2], E.units)), now[2]),
               Sub(Add(E.pageTopLeft[2], AsPoints(b[1], E.units)), now[1])))

\* pItem.move(undefined, [dx, dy]): by an offset in the ruler's unit
move(item, E, dx, dy) == MovedBy(item, AsPoints(dx, E.units), AsPoints(dy, E.units))

\* pub.imageMode(mode): whether it threw and the mode afterwards; a is <<>>
\* or <<mode>>
ImageModes == {"corner", "corners", "center"}
imageMode(a, mode0) ==
  IF a = <<>> THEN [threw |-> FALSE, mode |-> mode0]
  ELSE IF a[1] \in ImageModes THEN [threw |-> FALSE, mode |-> a[1]]
  ELSE [threw |-> TRUE, mode |-> mode0]

\* the first argument of transformImage(): the page item, an object with
\* geometricBounds that has no fit(), an object without geometricBounds
ImgArgs == {"item", "noFit", "noBounds"}

\* pub.transformImage(img, x, y, width, height): whether it threw and the item
\* afterwards; fit() changes the content of the frame, not the frame
transformImage(img, item, mode, E, x, y, width, height) ==
  IF img = "item" /\ item.hasGeometricBounds
  THEN With(setGeometricBounds(item, E, <<y, x, Add(y, height), Add(x, width)>>), LAMBDA framed :
         [threw |-> FALSE,
          item |-> IF mode = "center"
                   THEN move(framed, E, Neg(Div(width, I(2))), Neg(Div(height, I(2))))
                   ELSE framed])
  ELSE [threw |-> TRUE, item |-> item]

\* x, y, width, height
ImageCalls == { <<I(1), I(2), I(7), I(9)>>, <<Q(-1, 2), I(3), I(4), Q(5, 2)>> }

\* imageMode(mode), imageMode()
ImageMode ==
  /\ \E a \in {<<>>, <<"corner">>, <<"corners">>, <<"center">>, <<"middle">>} :
       \E r \in {imageMode(a, currImageMode)} :
         /\ currImageMode' = r.mode
         /\ tlast' = [type |-> "imageMode", value |-> UNDEF,
                      ret |-> IF r.threw THEN UNDEF ELSE AString,
                      threw |-> r.threw, pre |-> pItem]
  /\ UNCHANGED <<pItem, prefs, currRefPoint, refSet, currUnits, pageTopLeft, writes,
                 stackVars, matrixVars, currCanvasMode, hostPage, dropped, currDoc, currPage, currMode>>

\* transformImage(img, x, y, width, height)
TransformImage ==
  /\ writes < MaxWrites
  /\ writes' = writes + 1
  /\ \E img \in ImgArgs, c \in ImageCalls :
       \E r \in {transformImage(img, pItem, currImageMode, Env, c[1], c[2], c[3], c[4])} :
         /\ pItem' = r.item
         /\ tlast' = [type |-> "transformImage",
                      value |-> IF img = "item" THEN ARR(c[3], c[4]) ELSE UNDEF,
                      ret |-> UNDEF, threw |-> r.threw, pre |-> pItem]
  /\ UNCHANGED <<prefs, currRefPoint, refSet, currUnits, pageTopLeft,
                 stackVars, matrixVars, envVars>>

InitImage == InitItem

NextImage == ImageMode \/ TransformImage \/ TransformMeasure

SpecImage == InitImage /\ [][NextImage]_vars

\* after transformImage(img, x, y, width, height) on a page item the bounds
\* read [y, x, y + height, x + width] in the mode CORNER or CORNERS, and are
\* moved by half the extents in the mode CENTER
ImageBoundsSet ==
  (tlast.type = "transformImage" /\ ~tlast.threw) =>
    /\ With(geometricBounds(pItem, Env), LAMBDA b :
         /\ NumEq(Sub(b[4], b[2]), tlast.value[1])
         /\ NumEq(Sub(b[3], b[1]), tlast.value[2]))
    /\ pItem.rotationAngle = tlast.pre.rotationAngle
    /\ pItem.horizontalScale = tlast.pre.horizontalScale

-----------------------------------------------------------------------------
(* referencePoint(rp) between the transform() calls on one page item.  An
   argument is a pair of its kind and its value: <<"name", "TOP_LEFT">> is the
   constant pub.TOP_LEFT, <<"digit", n>> the number n, <<"enum", "TOP_LEFT_ANCHOR">>
   the host's AnchorPoint.TOP_LEFT_ANCHOR; <<>> is the call without argument. *)

RefNames == {"TOP_LEFT", "TOP_CENTER", "TOP_RIGHT", "CENTER_LEFT", "CENTER", "CENTER_CENTER",
             "CENTER_RIGHT", "BOTTOM_LEFT", "BOTTOM_CENTER", "BOTTOM_RIGHT"}
RefEnums == {"TOP_LEFT_ANCHOR", "TOP_CENTER_ANCHOR", "TOP_RIGHT_ANCHOR", "LEFT_CENTER_ANCHOR",
             "CENTER_ANCHOR", "RIGHT_CENTER_ANCHOR", "BOTTOM_LEFT_ANCHOR",
             "BOTTOM_CENTER_ANCHOR", "BOTTOM_RIGHT_ANCHOR"}
RefDigits == { I(n) : n \in 0..10 } \cup { Q(3, 2), NaN }
RefPointArgs ==
  { <<"name", n>> : n \in RefNames \cup {"MIDDLE"} }
    \cup { <<"digit", d>> : d \in RefDigits }
    \cup { <<"enum", a>> : a \in RefEnums \cup {"TOP_ANCHOR"} }
    \cup { <<>> }

\* rp === pub.<name> || rp === <digit> || rp === AnchorPoint.<anchor>
IsRef(rp, name, digit, anchor) ==
  \/ rp[1] = "name" /\ rp[2] = name
  \/ rp[1] = "digit" /\ NumEq(rp[2], I(digit))
  \/ rp[1] = "enum" /\ rp[2] = anchor

\* referencePoint with the digits laid out as on a telephone, 1 2 3 on top
referencePointPhonePad(rp, ref) ==
  IF rp = <<>> THEN [refPoint |-> ref, ret |-> ref, threw |-> FALSE]
  ELSE LET Set(r) == [refPoint |-> r, ret |-> r, threw |-> FALSE]
       IN CASE IsRef(rp, "TOP_LEFT", 1, "TOP_LEFT_ANCHOR") -> Set("topLeft")
            [] IsRef(rp, "TOP_CENTER", 2, "TOP_CENTER_ANCHOR") -> Set("topCenter")
            [] IsRef(rp, "TOP_RIGHT", 3, "TOP_RIGHT_ANCHOR") -> Set("topRight")
            [] IsRef(rp, "CENTER_LEFT", 4, "LEFT_CENTER_ANCHOR") -> Set("centerLeft")
            [] IsRef(rp, "CENTER", 5, "CENTER_ANCHOR") -> Set("center")
            [] IsRef(rp, "CENTER_RIGHT", 6, "RIGHT_CENTER_ANCHOR") -> Set("centerRight")
            [] IsRef(rp, "BOTTOM_LEFT", 7, "BOTTOM_LEFT_ANCHOR") -> Set("bottomLeft")
            [] IsRef(rp, "BOTTOM_CENTER", 8, "BOTTOM_CENTER_ANCHOR") -> Set("bottomCenter")
            [] IsRef(rp, "BOTTOM_RIGHT", 9, "BOTTOM_RIGHT_ANCHOR") -> Set("bottomRight")
            [] OTHER -> [refPoint |-> ref, ret |-> "", threw |-> TRUE]

\* pub.referencePoint(rp): the active reference point afterwards, the value
\* returned, whether it threw
referencePoint(rp, ref) ==
  IF rp = <<>> THEN [refPoint |-> ref, ret |-> ref, threw |-> FALSE]
  ELSE LET Set(r) == [refPoint |-> r, ret |-> r, threw |-> FALSE]
       IN CASE IsRef(rp, "TOP_LEFT", 7, "TOP_LEFT_ANCHOR") -> Set("topLeft")
            [] IsRef(rp, "TOP_CENTER", 8, "TOP_CENTER_ANCHOR") -> Set("topCenter")
            [] IsRef(rp, "TOP_RIGHT", 9, "TOP_RIGHT_ANCHOR") -> Set("topRight")
            [] IsRef(rp, "CENTER_LEFT", 4, "LEFT_CENTER_ANCHOR") -> Set("centerLeft")
            [] IsRef(rp, "CENTER", 5, "CENTER_ANCHOR") \/ rp = <<"name", "CENTER_CENTER">>
                 -> Set("center")
            [] IsRef(rp, "CENTER_RIGHT", 6, "RIGHT_CENTER_ANCHOR") -> Set("centerRight")
            [] IsRef(rp, "BOTTOM_LEFT", 1, "BOTTOM_LEFT_ANCHOR") -> Set("bottomLeft")
            [] IsRef(rp, "BOTTOM_CENTER", 2, "BOTTOM_CENTER_ANCHOR") -> Set("bottomCenter")
            [] IsRef(rp, "BOTTOM_RIGHT", 3, "BOTTOM_RIGHT_ANCHOR") -> Set("bottomRight")
            [] OTHER -> [refPoint |-> ref, ret |-> "", threw |-> TRUE]

\* the anchor in row r (0 top, 1 center, 2 bottom) and column c (0 left,
\* 1 center, 2 right) of the bounding box
AnchorAt(r, c) ==
  <<<<"topLeft", "topCenter", "topRight">>,
    <<"centerLeft", "center", "centerRight">>,
    <<"bottomLeft", "bottomCenter", "bottomRight">>>>[r + 1][c + 1]

\* the anchor an argument denotes, "" when it denotes none: a digit by its
\* place on the number pad, whose top row is 7 8 9
Denotes(rp) ==
  CASE rp[1] = "digit" ->
         IF rp[2] \in { I(n) : n \in 1..9 }
         THEN AnchorAt(2 - ((rp[2][1] - 1) \div 3), (rp[2][1] - 1) % 3)
         ELSE ""
    [] rp[1] = "name" ->
         CASE rp[2] \in {"TOP_LEFT"} -> AnchorAt(0, 0)
           [] rp[2] \in {"TOP_CENTER"} -> AnchorAt(0, 1)
           [] rp[2] \in {"TOP_RIGHT"} -> AnchorAt(0, 2)
           [] rp[2] \in {"CENTER_LEFT"} -> AnchorAt(1, 0)
           [] rp[2] \in {"CENTER", "CENTER_CENTER"} -> AnchorAt(1, 1)
           [] rp[2] \in {"CENTER_RIGHT"} -> AnchorAt(1, 2)
           [] rp[2] \in {"BOTTOM_LEFT"} -> AnchorAt(2, 0)
           [] rp[2] \in {"BOTTOM_CENTER"} -> AnchorAt(2, 1)
           [] rp[2] \in {"BOTTOM_RIGHT"} -> AnchorAt(2, 2)
           [] OTHER -> ""
    [] rp[1] = "enum" ->
         CASE rp[2] \in {"TOP_LEFT_ANCHOR"} -> AnchorAt(0, 0)
           [] rp[2] \in {"TOP_CENTER_ANCHOR"} -> AnchorAt(0, 1)
           [] rp[2] \in {"TOP_RIGHT_ANCHOR"} -> AnchorAt(0, 2)
           [] rp[2] \in {"LEFT_CENTER_ANCHOR"} -> AnchorAt(1, 0)
           [] rp[2] \in {"CENTER_ANCHOR"} -> AnchorAt(1, 1)
           [] rp[2] \in {"RIGHT_CENTER_ANCHOR"} -> AnchorAt(1, 2)
           [] rp[2] \in {"BOTTOM_LEFT_ANCHOR"} -> AnchorAt(2, 0)
           [] rp[2] \in {"BOTTOM_CENTER_ANCHOR"} -> AnchorAt(2, 1)
           [] rp[2] \in {"BOTTOM_RIGHT_ANCHOR"} -> AnchorAt(2, 2)
           [] OTHER -> ""

\* referencePoint(rp) and referencePoint()
ReferencePoint ==
  \E rp \in RefPointArgs :
    \E r \in {referencePoint(rp, currRefPoint)} :
      /\ currRefPoint' = r.refPoint
      /\ refSet' = IF rp = <<>> \/ r.threw THEN refSet ELSE Denotes(rp)
      /\ tlast' = [type |-> "referencePoint",
                   value |-> IF rp = <<>> THEN <<"none">> ELSE <<rp[1]>>,
                   ret |-> r.ret, threw |-> r.threw, pre |-> pItem]
      /\ UNCHANGED <<pItem, prefs, currUnits, pageTopLeft, writes,
                     stackVars, matrixVars, envVars>>

\* the writes and the reads between the calls of referencePoint
RefWriteCalls == { <<"size", ARR(I(3), I(1))>>, <<"position", ARR(I(1), I(2))>> }
RefMeasureTypes == {"position", "flip"}
\* an upright item and one turned by 90 degrees
RefItemSet == { PageItem(I(4), I(2), I(0), I(0), I(0)), PageItem(I(3), I(5), I(6), I(1), I(90)) }

RefTransformWrite ==
  /\ writes < MaxWrites
  /\ writes' = writes + 1
  /\ \E c \in RefWriteCalls :
       /\ ~DividesByExtent(pItem, Env, c[1], c[2])
       /\ TransformCalled(c[1], c[2])

RefTransformMeasure ==
  /\ writes' = writes
  /\ \E t \in RefMeasureTypes : TransformCalled(t, UNDEF)

\* by default, the reference point is set to the top left
InitRef ==
  /\ pItem \in RefItemSet
  /\ prefs = PrefsAfter
  /\ currRefPoint = "topLeft"
  /\ refSet = "topLeft"
  /\ \E p \in Settings :
       /\ currUnits = p.units
       /\ currOriginX = p.origin[1]
       /\ currOriginY = p.origin[2]
       /\ pageTopLeft = p.pageTopLeft
  /\ tlast = NoTransform
  /\ writes = 0
  /\ currMatrix = IdentityElements
  /\ matrixStack = <<>>
  /\ last = NoCall
  /\ pushedAt = <<>>
  /\ calls = 0
  /\ MatrixIdle
  /\ EnvIdle

NextRef == ReferencePoint \/ RefTransformWrite \/ RefTransformMeasure

SpecRef == InitRef /\ [][NextRef]_vars

-----------------------------------------------------------------------------
(* transform() with every kind of second argument, on page items and on first
   arguments that are none, under transform preferences as the user left them *)

TenKinds == {"translate", "rotate", "scale", "shear", "size", "width", "height",
             "position", "x", "y"}
KindAliases == {"translation", "rotation", "scaling", "shearing"}
\* strings that name no kind: an unknown word, the empty string, a kind in
\* capitals, a kind with a blank
NoKinds == {"flip", "", "Width", "x "}
KindSet == TenKinds \cup KindAliases \cup NoKinds

\* the calls with a value
KindWriteCalls ==
  { <<"width", I(3)>>, <<"size", ARR(I(3), I(1))>>, <<"position", ARR(I(1), I(2))>>,
    <<"x", Q(-1, 4)>>, <<"translate", ARR(I(2), I(-1))>>, <<"translation", ARR(I(2), I(-1))>>,
    <<"rotate", I(90)>>, <<"rotation", I(90)>>, <<"scaling", I(2)>>,
    <<"shearing", I(45)>>, <<"flip", I(3)>>, <<"Width", I(3)>>, <<"", ARR(I(3), I(1))>>,
    <<"height", Q(16, 3)>>, <<"shear", I(45)>>, <<"scale", ARR(I(2), Q(1, 2))>> }

\* a first argument that is missing, and an object without geometricBounds:
\* the test of the first statement takes the same branch for both
NoItem == [PageItem(I(0), I(0), I(0), I(0), I(0)) EXCEPT !.hasGeometricBounds = FALSE]
NoBoundsItem == [PageItem(I(1), I(1), I(0), I(0), I(0)) EXCEPT !.hasGeometricBounds = FALSE]

\* an item that was scaled before: 200% by 50%
ScaledItem ==
  [PageItem(I(4), I(2), I(0), I(0), I(0)) EXCEPT !.horizontalScale = I(200),
                                                !.verticalScale = I(50)]

KindItemSet ==
  { ScaledItem,
    PageItem(I(0), I(3), I(2), I(2), I(0)),
    NoItem, NoBoundsItem }

\* app.transformPreferences as a user or an earlier script may have left them
PrefsSet ==
  { [adjustStrokeWeightWhenScaling |-> a, whenScaling |-> w] :
      a \in BOOLEAN, w \in {"APPLY_TO_CONTENT", "ADJUST_SCALING_PERCENTAGE"} }

\* a call of transform(), recorded with the transform preferences before it
KindCalled(type, value) ==
  \E r \in {transform(World, Env, type, value)} :
     /\ pItem' = r.item
     /\ prefs' = r.prefs
     /\ tlast' = [type |-> type, value |-> value, ret |-> r.ret, threw |-> r.threw, pre |-> pItem,
                  prefsBefore |-> prefs, valueAfter |-> r.value]
     /\ UNCHANGED <<currRefPoint, refSet, currUnits, pageTopLeft, stackVars, matrixVars, envVars>>

KindWrite ==
  /\ writes < MaxWrites
  /\ writes' = writes + 1
  /\ \E c \in KindWriteCalls :
       /\ ~DividesByExtent(pItem, Env, c[1], c[2])
       /\ KindCalled(c[1], c[2])

KindMeasure ==
  /\ writes' = writes
  /\ \E t \in KindSet : KindCalled(t, UNDEF)

\* the kinds whose write takes a number, and those whose write takes an array
NumberKinds == {"width", "height", "rotate", "rotation", "shear", "shearing", "x", "y"}
ArrayKinds == {"size", "translate", "translation", "position"}
ScaleKinds == {"scale", "scaling"}

\* calls with a value of the wrong type for the kind: null, a string, NaN, an
\* array for a number and a number for an array
MistypedCalls ==
  { <<"width", ARR(I(3), I(1))>>, <<"height", AString>>, <<"rotate", NULL>>,
    <<"shear", NaN>>, <<"x", ARR(I(1), I(2))>>, <<"y", NULL>>,
    <<"size", I(3)>>, <<"translate", AString>>, <<"position", I(3)>>,
    <<"scale", NULL>>, <<"scaling", AString>>, <<"rotation", AString>> }

\* transform(pItem, type, value) with a value of the wrong type
KindMistyped ==
  /\ writes' = writes
  /\ \E c \in MistypedCalls : KindCalled(c[1], c[2])

InitKind ==
  /\ pItem \in KindItemSet
  /\ prefs \in PrefsSet
  /\ currRefPoint = "center"
  /\ refSet = currRefPoint
  /\ currUnits = "mm"
  /\ currOriginX = I(4)
  /\ currOriginY = I(-1)
  /\ pageTopLeft = <<I(-3), I(1)>>
  /\ tlast = [type |-> "none", value |-> UNDEF, ret |-> UNDEF, threw |-> FALSE,
              pre |-> pItem, prefsBefore |-> prefs, valueAfter |-> UNDEF]
  /\ writes = 0
  /\ currMatrix = IdentityElements
  /\ matrixStack = <<>>
  /\ last = NoCall
  /\ pushedAt = <<>>
  /\ calls = 0
  /\ MatrixIdle
  /\ EnvIdle

NextKind == KindWrite \/ KindMeasure \/ KindMistyped

SpecKind == InitKind /\ [][NextKind]_vars

-----------------------------------------------------------------------------
(* Claims on the matrix stack *)

\* C1: a popMatrix() that matches a pushMatrix() leaves the current matrix equal,
\* coefficient for coefficient, to the matrix that was current at that push,
\* nested pops restoring in last-in-first-out order; and the snapshots on the
\* stack stay the matrices that were current at their pushes, whatever was done
\* to the current matrix since.
C1_PopRestoresPushedMatrix ==
  /\ matrixStack = pushedAt
  /\ (last.op = "popMatrix" /\ ~last.threw) => currMatrix = last.arg[1]

C1_Witness ==
  /\ last.op = "popMatrix"
  /\ ~last.threw
  /\ last.pre # currMatrix
  /\ Len(matrixStack) > 0
  /\ matrixStack[Len(matrixStack)] # currMatrix
  /\ currMatrix = last.arg[1]

\* C2: popMatrix() with no unmatched pushMatrix() since the last reset throws and
\* leaves the current matrix and the empty stack as they were.
C2_PopOnEmptyStackThrows ==
  [][(last'.op = "popMatrix" /\ last' # last /\ pushedAt = <<>>) =>
       (last'.threw /\ currMatrix' = currMatrix /\ matrixStack' = <<>>)]_vars

C2_Witness ==
  /\ last.op = "popMatrix"
  /\ last.threw
  /\ matrixStack = <<>>
  /\ currMatrix = last.pre
  /\ currMatrix # resetMatrix(currOriginX, currOriginY).elements

\* C10: rotate(t1) followed directly by rotate(t2) leaves the current matrix
\* that a single rotate(t1 + t2) leaves on the matrix before the two calls.
C10_RotationsAdd ==
  [][(/\ last.op = "rotate" /\ ~last.threw
      /\ last'.op = "rotate" /\ ~last'.threw /\ calls' = calls + 1) =>
       /\ last'.pre = currMatrix
       /\ MatEq(currMatrix',
                pubRotate(last.pre, <<Add(last.arg[1], last'.arg[1])>>).elements)]_vars

\* a second rotate in a row has run, on a matrix that was not the identity
C10_Witness ==
  /\ last.op = "rotate"
  /\ ~last.threw
  /\ last.pre # currMatrix
  /\ calls >= 3
  /\ \E a \in RotateCalls \ {<<>>} :
       LET m0 == pubRotate(last.pre, <<Neg(a[1])>>).elements
       IN /\ ~MatEq(m0, resetMatrix(currOriginX, currOriginY).elements)
          /\ ~MatEq(m0, currMatrix)

\* C13: a resetMatrix() returns, and after it the matrix stack is empty and the
\* current matrix is [1, 0, currOriginX, 0, 1, currOriginY], whatever the
\* current matrix and the stack were before the call.
C13_ResetGivesOriginTranslation ==
  last.op = "resetMatrix" =>
    /\ ~last.threw
    /\ matrixStack = <<>>
    /\ MatEq(currMatrix, <<I(1), I(0), currOriginX, I(0), I(1), currOriginY>>)

\* a resetMatrix() with an origin that is not zero, called after other calls on
\* a matrix that was neither the identity nor the matrix it leaves
C13_Witness ==
  /\ last.op = "resetMatrix"
  /\ calls >= 3
  /\ ~IsZero(currOriginX)
  /\ ~MatEq(last.pre, currMatrix)
  /\ ~MatEq(last.pre, IdentityElements)
  /\ ~NumEq(El(last.pre, 0), I(1))
  /\ MatEq(currMatrix, <<I(1), I(0), currOriginX, I(0), I(1), currOriginY>>)

\* the calls that reset the coordinate system
ResetOps == {"canvasMode", "units", "doc", "revert", "drawMode", "close"}

\* the last call reset the coordinate system: canvasMode(m), units(u), and
\* the calls that set or drop the current document
LastReset ==
  /\ ~last.threw
  /\ CASE last.op \in {"canvasMode", "units"} -> TRUE
       [] last.op = "doc" -> last.arg \in {<<"document">>, <<"none", "null">>}
       [] last.op = "revert" -> reverts(last.arg[1])
       [] last.op = "drawMode" -> last.arg[3] = "sets"
       [] last.op = "close" -> last.arg[2] = "set"
       [] OTHER -> FALSE

\* a call of these that returned without a reset left the matrix and the stack
LastKept ==
  /\ last.op \in ResetOps
  /\ ~last.threw
  /\ ~LastReset

\* C14: after every successful canvasMode(m) and units(u), and after every
\* call that sets a new current document or drops the current one (doc(d),
\* revert(), drawMode(mode), close(), doc() after close()), the matrix stack is
\* empty, whatever was pushed before, and a popMatrix() that follows fails; a
\* call of these functions that returns without a reset leaves the current
\* matrix as it was.
C14_ResetEmptiesStack ==
  /\ LastReset =>
       /\ matrixStack = <<>>
       /\ popMatrix(matrixStack, currMatrix).threw
  /\ LastKept => MatEq(currMatrix, last.pre)

\* a reset has just discarded snapshots pushed before it
C14_Witness ==
  /\ LastReset
  /\ dropped > 0

-----------------------------------------------------------------------------
(* Claims on Matrix2D *)

\* C6: after m.apply(s) the receiver maps every point p to M(S(p)), M being the
\* receiver before the call: the operand acts first, then the original receiver.
C6_ApplyComposesOperandFirst ==
  method = "apply" =>
    \A p \in Points : PtEq(mult(recv, p), mult(recv0, mult(operand, p)))

C6_Witness ==
  /\ method = "apply"
  /\ ~MatEq(recv, preApply(recv0, operand))
  /\ ~MatEq(recv, recv0)
  /\ \E p \in Points : ~PtEq(mult(recv, p), mult(operand, mult(recv0, p)))

\* C7: after m.preApply(s) the receiver maps every point p to S(M(p)), the
\* translation column included.
C7_PreApplyComposesReceiverFirst ==
  method = "preApply" =>
    /\ \A p \in Points : PtEq(mult(recv, p), mult(operand, mult(recv0, p)))
    /\ NumEq(El(recv, 2), mult(operand, <<El(recv0, 2), El(recv0, 5)>>)[1])
    /\ NumEq(El(recv, 5), mult(operand, <<El(recv0, 2), El(recv0, 5)>>)[2])

C7_Witness ==
  /\ method = "preApply"
  /\ ~MatEq(recv, apply(recv0, operand))
  /\ ~NumEq(El(recv, 2), Add(El(recv0, 2), El(operand, 2)))
  /\ ~NumEq(El(recv, 5), Add(El(recv0, 5), El(operand, 5)))

\* C8: invert() on a matrix with non-zero determinant returns true and leaves the
\* inverse: composed with the original in either order it gives the identity,
\* and inverting it again gives the original back.
C8_InvertGivesInverse ==
  (method = "invert" /\ ~IsZero(determinant(recv0))) =>
    /\ ret = TRUE
    /\ MatEq(apply(recv0, recv), IdentityElements)
    /\ MatEq(apply(recv, recv0), IdentityElements)
    /\ invert(recv).ret = TRUE
    /\ MatEq(invert(recv).elements, recv0)

C8_Witness ==
  /\ method = "invert"
  /\ ~IsZero(determinant(recv0))
  /\ ~NumEq(determinant(recv0), I(1))
  /\ ~IsZero(El(recv0, 2))
  /\ ~IsZero(El(recv0, 1))
  /\ ~MatEq(recv, recv0)

\* C9: invert() on a matrix whose determinant is zero returns false and leaves
\* the six coefficients as they were.
C9_SingularInvertFails ==
  (method = "invert" /\ IsZero(determinant(recv0))) =>
    /\ ret = FALSE
    /\ recv = recv0

\* the canonical matrices, in the layout x' = a*x + b*y + c, y' = d*x + e*y + f
RotationClockwise(angle) ==
  <<MathCos(angle), Neg(MathSin(angle)), I(0), MathSin(angle), MathCos(angle), I(0)>>
RotationCounterClockwise(angle) ==
  <<MathCos(angle), MathSin(angle), I(0), Neg(MathSin(angle)), MathCos(angle), I(0)>>
ScaleMatrix(sx, sy) == <<sx, I(0), I(0), I(0), sy, I(0)>>

\* C11, as stated: after m.rotate(t) the receiver is what m.apply of
\* [cos t, sin t, 0, -sin t, cos t, 0] gives on the receiver before the call.
C11_RotateComposesSinMinusSin ==
  method = "rotate" =>
    MatEq(recv, apply(recv0, RotationCounterClockwise(operand[1])))

\* C11, amended: after m.rotate(t) the receiver is what m.apply of
\* [cos t, -sin t, 0, sin t, cos t, 0] gives on the receiver before the call;
\* in coordinates with y pointing down that matrix turns clockwise for t > 0,
\* and the translation column stays as it was.
C11_RotateComposesMinusSinSin ==
  method = "rotate" =>
    /\ MatEq(recv, apply(recv0, RotationClockwise(operand[1])))
    /\ NumEq(El(recv, 2), El(recv0, 2))
    /\ NumEq(El(recv, 5), El(recv0, 5))
    /\ PtEq(mult(RotationClockwise(operand[1]), <<I(1), I(0)>>),
            <<MathCos(operand[1]), MathSin(operand[1])>>)

\* a quarter turn of a receiver for which the two senses differ
C11_Witness ==
  /\ method = "rotate"
  /\ operand = <<I(1)>>
  /\ ~MatEq(recv, recv0)
  /\ ~MatEq(recv, apply(recv0, RotationCounterClockwise(operand[1])))
  /\ ~IsZero(El(recv0, 2))
  /\ ~IsZero(determinant(recv0))

\* C12, as stated: after m.scale(sx, sy) the receiver is the receiver before
\* the call composed with [sx,0,0,0,sy,0], for all factors, zero and negative
\* ones included; m.scale(s) is m.scale(s, s); and a scale that follows
\* multiplies the factors.
C12_ScaleComposesCanonical ==
  method = "scale" =>
    LET sx == operand[1]
        sy == IF Len(operand) = 2 THEN operand[2] ELSE operand[1]
    IN /\ MatEq(recv, apply(recv0, ScaleMatrix(sx, sy)))
       /\ Len(operand) = 1 => MatEq(recv, scale(recv0, sx, sx))
       /\ \A b \in ScaleArgs :
            Len(operand) = 1 /\ Len(b) = 1 =>
              MatEq(scale(recv, b[1], UNDEF), scale(recv0, Mul(sx, b[1]), UNDEF))

\* the same with every factor that is passed different from zero
C12_ScaleComposesCanonicalNonZero ==
  (method = "scale" /\ \A i \in 1..Len(operand) : ~IsZero(operand[i])) =>
    LET sx == operand[1]
        sy == IF Len(operand) = 2 THEN operand[2] ELSE operand[1]
    IN /\ MatEq(recv, apply(recv0, ScaleMatrix(sx, sy)))
       /\ Len(operand) = 1 => MatEq(recv, scale(recv0, sx, sx))
       /\ \A b \in ScaleArgs :
            (Len(operand) = 1 /\ Len(b) = 1 /\ ~IsZero(b[1])) =>
              MatEq(scale(recv, b[1], UNDEF), scale(recv0, Mul(sx, b[1]), UNDEF))

-----------------------------------------------------------------------------
(* Claims on transform() *)

\* transform(pItem, type) in the state as it stands
Measure(type) == transform(World, Env, type, UNDEF)

\* the last call was transform(pItem, type, value) with a value
Wrote(type) == tlast.type = type /\ tlast.value # UNDEF

ArrEq(a, b) == isArray(a) /\ isArray(b) /\ NumEq(a[1], b[1]) /\ NumEq(a[2], b[2])

ItemEq(a, b) ==
  /\ MatEq(a.m, b.m)
  /\ NumEq(a.w, b.w) /\ NumEq(a.h, b.h)
  /\ NumEq(a.rotationAngle, b.rotationAngle)
  /\ NumEq(a.shearAngle, b.shearAngle)
  /\ NumEq(a.horizontalScale, b.horizontalScale)
  /\ NumEq(a.verticalScale, b.verticalScale)

\* width and height of the item's bounding box
WidthOf(item) == With(SpreadBounds(item), LAMBDA b : Sub(b[4], b[2]))
HeightOf(item) == With(SpreadBounds(item), LAMBDA b : Sub(b[3], b[1]))

Rounded(v) == precision(v, Digits)

\* C3, as stated: after a write of the width V (V > 0) a read of the width
\* returns V, whatever the item; the same for the height; and after a write of
\* the size [W, H] the reads of size, width and height return [W, H], W and H.
C3_SizeReadsBackAsWritten ==
  /\ Wrote("width") => NumEq(Measure("width").ret, tlast.value)
  /\ Wrote("height") => NumEq(Measure("height").ret, tlast.value)
  /\ Wrote("size") =>
       /\ ArrEq(Measure("size").ret, tlast.value)
       /\ NumEq(Measure("width").ret, tlast.value[1])
       /\ NumEq(Measure("height").ret, tlast.value[2])

\* C3, amended: on an item whose extent along the axis is not zero the write
\* does not throw, and the read that follows returns V rounded to 12
\* fractional digits (V itself when it has no more digits than that).
C3_SizeReadsBackRounded ==
  /\ (Wrote("width") /\ ~IsZero(WidthOf(tlast.pre))) =>
       ~tlast.threw /\ NumEq(Measure("width").ret, Rounded(tlast.value))
  /\ (Wrote("height") /\ ~IsZero(HeightOf(tlast.pre))) =>
       ~tlast.threw /\ NumEq(Measure("height").ret, Rounded(tlast.value))
  /\ (Wrote("size") /\ ~IsZero(WidthOf(tlast.pre)) /\ ~IsZero(HeightOf(tlast.pre))) =>
       /\ ~tlast.threw
       /\ ArrEq(Measure("size").ret, ARR(Rounded(tlast.value[1]), Rounded(tlast.value[2])))
       /\ NumEq(Measure("width").ret, Rounded(tlast.value[1]))
       /\ NumEq(Measure("height").ret, Rounded(tlast.value[2]))

\* a size with more than 12 fractional digits in its width was written to a
\* turned item under a reference point that is not a corner; both extents changed
C3_Witness ==
  /\ Wrote("size")
  /\ ~tlast.threw
  /\ ~NumEq(tlast.pre.rotationAngle, I(0))
  /\ currRefPoint = "center"
  /\ ~NumEq(Rounded(tlast.value[1]), tlast.value[1])
  /\ ArrEq(Measure("size").ret, ARR(Rounded(tlast.value[1]), tlast.value[2]))
  /\ ~NumEq(AsUnit(WidthOf(tlast.pre), currUnits), tlast.value[1])
  /\ ~NumEq(AsUnit(HeightOf(tlast.pre), currUnits), tlast.value[2])

\* C4, as stated: after a write of the position [X, Y] a read of the position
\* returns [X, Y], whatever the item and the reference point; after a write of
\* x a read of x returns X, and after a write of y a read of y returns Y.
C4_PositionReadsBackAsWritten ==
  /\ Wrote("position") => ArrEq(Measure("position").ret, tlast.value)
  /\ Wrote("x") => NumEq(Measure("x").ret, tlast.value)
  /\ Wrote("y") => NumEq(Measure("y").ret, tlast.value)

\* C4, amended: the write does not throw and returns the value it was given, and
\* the read that follows returns the coordinates rounded to 12 fractional
\* digits; a write of x leaves y as it was read before, and the other way round.
C4_PositionReadsBackRounded ==
  /\ Wrote("position") =>
       /\ ~tlast.threw
       /\ tlast.ret = tlast.value
       /\ ArrEq(Measure("position").ret, ARR(Rounded(tlast.value[1]), Rounded(tlast.value[2])))
  /\ Wrote("x") =>
       /\ ~tlast.threw
       /\ tlast.ret = tlast.value
       /\ NumEq(Measure("x").ret, Rounded(tlast.value))
       /\ NumEq(Measure("y").ret, transform([item |-> tlast.pre, prefs |-> prefs], Env, "y", UNDEF).ret)
  /\ Wrote("y") =>
       /\ ~tlast.threw
       /\ tlast.ret = tlast.value
       /\ NumEq(Measure("y").ret, Rounded(tlast.value))
       /\ NumEq(Measure("x").ret, transform([item |-> tlast.pre, prefs |-> prefs], Env, "x", UNDEF).ret)

\* a position with more than 12 fractional digits was written to a turned item,
\* in millimetres, with an origin offset, under the bottom right reference
\* point; the item moved along both axes
C4_Witness ==
  /\ Wrote("position")
  /\ ~tlast.threw
  /\ currRefPoint = "bottomRight"
  /\ currUnits = "mm"
  /\ ~IsZero(currOriginX)
  /\ ~NumEq(pItem.rotationAngle, I(0))
  /\ ~NumEq(Rounded(tlast.value[1]), tlast.value[1])
  /\ ArrEq(Measure("position").ret, ARR(Rounded(tlast.value[1]), tlast.value[2]))
  /\ ~NumEq(El(pItem.m, 2), El(tlast.pre.m, 2))
  /\ ~NumEq(El(pItem.m, 5), El(tlast.pre.m, 5))

\* C5: a write of the rotation V returns V whatever the rotation of the item
\* before, a read that follows returns V, and a second write of the same V
\* returns V and leaves the item as the first write left it.
C5_RotateIsAbsolute ==
  Wrote("rotate") =>
    /\ ~tlast.threw
    /\ NumEq(tlast.ret, tlast.value)
    /\ NumEq(Measure("rotate").ret, tlast.value)
    /\ With(transform(World, Env, "rotate", tlast.value), LAMBDA again :
         ~again.threw /\ NumEq(again.ret, tlast.value) /\ ItemEq(again.item, pItem))

\* a rotation was written to an item that stood at another rotation, not zero,
\* and the item turned
C5_Witness ==
  /\ Wrote("rotate")
  /\ ~tlast.threw
  /\ ~NumEq(tlast.pre.rotationAngle, I(0))
  /\ ~NumEq(Neg(tlast.pre.rotationAngle), tlast.value)
  /\ ~MatEq(pItem.m, tlast.pre.m)
  /\ NumEq(Measure("rotate").ret, tlast.value)


\* transform(item, "position") on the item as it was before the last call
PositionBefore == transform([item |-> tlast.pre, prefs |-> prefs], Env, "position", UNDEF).ret

SizeTypes == {"width", "height", "size"}

\* C16: after a write of the width, the height or the size, under any of the
\* nine reference points, a read of the position returns the coordinates that a
\* read before the write returned.
C16_SizeWriteHoldsReferencePoint ==
  (tlast.type \in SizeTypes /\ tlast.value # UNDEF) =>
    ArrEq(Measure("position").ret, PositionBefore)

\* a width was written to a turned item under the bottom center reference
\* point, and the item changed
C16_Witness ==
  /\ Wrote("width")
  /\ ~tlast.threw
  /\ currRefPoint = "bottomCenter"
  /\ ~NumEq(pItem.rotationAngle, I(0))
  /\ ~MatEq(pItem.m, tlast.pre.m)
  /\ ~NumEq(WidthOf(pItem), WidthOf(tlast.pre))

\* the item's bounding box relative to the page origin, in the active unit:
\* the corner (L, T) and the size (w, h)
BoxOnPage ==
  With(geometricBounds(pItem, Env), LAMBDA b :
    [L |-> Sub(b[2], currOriginX), T |-> Sub(b[1], currOriginY),
     w |-> Sub(b[4], b[2]), h |-> Sub(b[3], b[1])])

\* (L + fx*w, T + fy*h), fx and fy given by the active reference point
AnchorInBox ==
  With(BoxOnPage, LAMBDA b :
    ARR(Add(b.L, Mul(AnchorX(currRefPoint), b.w)), Add(b.T, Mul(AnchorY(currRefPoint), b.h))))

\* the sides of the item are parallel to the axes of the page, and the item is
\* neither turned nor flipped
Upright(item) ==
  /\ IsZero(El(item.m, 1)) /\ IsZero(El(item.m, 3))
  /\ Gt(El(item.m, 0), I(0)) /\ Gt(El(item.m, 4), I(0))

KindOf(type) ==
  CASE type = "translation" -> "translate"
    [] type = "rotation" -> "rotate"
    [] type = "scaling" -> "scale"
    [] type = "shearing" -> "shear"
    [] OTHER -> type

\* the last call was transform(pItem, type, ...) with a page item
CalledOnItem == tlast.type \notin {"none", "referencePoint"} /\ tlast.pre.hasGeometricBounds

\* C18, as stated: transform(item, kind, value) throws, and leaves the item as
\* it was, for every kind other than the ten names.
C18_OnlyTenKinds ==
  (CalledOnItem /\ tlast.type \notin TenKinds) =>
    /\ tlast.threw
    /\ ItemEq(pItem, tlast.pre)

\* C18, amended: transform(item, kind, value) throws, and leaves the item as it
\* was, for every kind other than the ten names and the four aliases
\* translation, rotation, scaling and shearing; an alias does what the kind it
\* stands for does.
C18_OnlyTenKindsAndAliases ==
  /\ (CalledOnItem /\ tlast.type \notin TenKinds \cup KindAliases) =>
       /\ tlast.threw
       /\ ItemEq(pItem, tlast.pre)
  /\ (CalledOnItem /\ tlast.type \in KindAliases) =>
       With(transform([item |-> tlast.pre, prefs |-> tlast.prefsBefore], Env,
                      KindOf(tlast.type), tlast.value),
            LAMBDA r : /\ tlast.threw = r.threw
                       /\ tlast.ret = r.ret
                       /\ ItemEq(pItem, r.item))

\* a kind that does not exist was called with a value on a page item
C18_Witness ==
  /\ CalledOnItem
  /\ tlast.type = "Width"
  /\ tlast.value = I(3)
  /\ tlast.threw
  /\ NumEq(WidthOf(pItem), I(4))

\* C19: transform() with a first argument that is missing or has no
\* geometricBounds throws, whatever the kind and the value, and leaves the
\* argument and the transform preferences as they were before the call.
C19_InvalidFirstParameterThrowsFirst ==
  (tlast.type \notin {"none", "referencePoint"} /\ ~tlast.pre.hasGeometricBounds) =>
    /\ tlast.threw
    /\ tlast.ret = UNDEF
    /\ pItem = tlast.pre
    /\ prefs = tlast.prefsBefore

\* a width was written to a missing first argument while the preferences were
\* neither those that transform() sets on entry nor those it sets at its end
C19_Witness ==
  /\ pItem = NoItem
  /\ Wrote("width")
  /\ tlast.threw
  /\ prefs = [adjustStrokeWeightWhenScaling |-> TRUE, whenScaling |-> "ADJUST_SCALING_PERCENTAGE"]

\* C20, as stated: on every exit of transform() with a page item (normal
\* return, early return of an x, y or position write, an invalid kind, a
\* failure of the host's transform) the two transform preferences hold the
\* values they had before the call.
C20_PrefsRestored ==
  CalledOnItem => prefs = tlast.prefsBefore

\* what the calls leave: the values set at the end of the function after a
\* return, the values set on entry after an exception
C20_PrefsLeftAsSet ==
  CalledOnItem => prefs = IF tlast.threw THEN PrefsDuring ELSE PrefsAfter

\* the value returned is the number v
RetIs(v) == isNumber(tlast.ret) /\ NumEq(tlast.ret, v)

\* C21, as stated: a write of x, y, position or translate returns the value
\* that was passed.
C21_MovesEchoInput ==
  /\ Wrote("x") => (~tlast.threw /\ RetIs(tlast.value))
  /\ Wrote("y") => (~tlast.threw /\ RetIs(tlast.value))
  /\ Wrote("position") => (~tlast.threw /\ ArrEq(tlast.ret, tlast.value))
  /\ Wrote("translate") => (~tlast.threw /\ ArrEq(tlast.ret, tlast.value))

\* C21, amended: a write of x, y or position returns the value that was
\* passed; a write of translate returns what a read of the position returns
\* after the move.
C21_MovesEchoInputButTranslate ==
  /\ Wrote("x") => (~tlast.threw /\ RetIs(tlast.value))
  /\ Wrote("y") => (~tlast.threw /\ RetIs(tlast.value))
  /\ Wrote("position") => (~tlast.threw /\ ArrEq(tlast.ret, tlast.value))
  /\ Wrote("translate") => (~tlast.threw /\ ArrEq(tlast.ret, Measure("position").ret))

\* a translate write under the center reference point moved the item and
\* returned a position that is not the offset passed
C21_Witness ==
  /\ Wrote("translate")
  /\ ~tlast.threw
  /\ ~ArrEq(tlast.ret, tlast.value)
  /\ ~MatEq(pItem.m, tlast.pre.m)
  /\ currRefPoint = "center"

\* the value returned equals v, number or array
RetEq(v) ==
  \/ isNumber(tlast.ret) /\ isNumber(v) /\ NumEq(tlast.ret, v)
  \/ ArrEq(tlast.ret, v)

RecomputedKinds == {"rotate", "rotation", "scale", "scaling", "shear", "shearing"}

\* the last call wrote: its value had the type that the kind takes
WroteKind(kinds) ==
  /\ CalledOnItem
  /\ tlast.type \in kinds
  /\ ~tlast.threw
  /\ IF tlast.type \in ArrayKinds THEN isArray(tlast.value)
     ELSE IF tlast.type \in ScaleKinds THEN isNumber(tlast.value) \/ isArray(tlast.value)
     ELSE isNumber(tlast.value)

\* C22, as stated: a write of width, height, size, rotate, scale or shear
\* returns the value that a read of the same kind returns after it.
C22_WritesReturnReadBack ==
  WroteKind(SizeTypes \cup RecomputedKinds) => RetEq(Measure(tlast.type).ret)

\* C22, amended: a write of rotate, scale or shear returns the value that a
\* read of the same kind returns after it; a write of width, height or size
\* returns the value that was passed.
C22_SizeWritesEchoOthersReadBack ==
  /\ WroteKind(RecomputedKinds) => RetEq(Measure(tlast.type).ret)
  /\ WroteKind(SizeTypes) => RetEq(tlast.value)

\* a height with more than 12 fractional digits was written: the call
\* returned it, and a read returns the rounded height
C22_Witness ==
  /\ WroteKind({"height"})
  /\ RetEq(tlast.value)
  /\ ~NumEq(Measure("height").ret, tlast.value)
  /\ ~MatEq(pItem.m, tlast.pre.m)

\* the value of a kind as the item has it: the extent of its bounding box,
\* its angles negated, its scale percentages over 100, the place of the active
\* reference point on the page
CurrentValue(type) ==
  LET kind == KindOf(type)
      pt == resolve(pItem, currRefPoint)
      px == Rounded(Sub(AsUnit(Sub(pt[1], pageTopLeft[1]), currUnits), currOriginX))
      py == Rounded(Sub(AsUnit(Sub(pt[2], pageTopLeft[2]), currUnits), currOriginY))
  IN CASE kind = "width" -> Rounded(BoxOnPage.w)
       [] kind = "height" -> Rounded(BoxOnPage.h)
       [] kind = "size" -> ARR(Rounded(BoxOnPage.w), Rounded(BoxOnPage.h))
       [] kind = "rotate" -> Neg(pItem.rotationAngle)
       [] kind = "shear" -> Neg(pItem.shearAngle)
       [] kind = "scale" -> ARR(Div(pItem.horizontalScale, I(100)), Div(pItem.verticalScale, I(100)))
       [] kind = "x" -> px
       [] kind = "y" -> py
       [] OTHER -> ARR(px, py)

\* the last call passed no value, or one of the wrong type for its kind
ReadCall ==
  /\ CalledOnItem
  /\ tlast.type \in TenKinds \cup KindAliases
  /\ IF tlast.type \in NumberKinds THEN ~isNumber(tlast.value)
     ELSE IF tlast.type \in ArrayKinds THEN ~isArray(tlast.value)
     ELSE ~isNumber(tlast.value) /\ ~isArray(tlast.value)

\* C23: a call without value, or with a value of the wrong type for its kind,
\* does not throw, leaves the item as it was and returns the current value of
\* the kind.
C23_ReadIsPure ==
  ReadCall =>
    /\ ~tlast.threw
    /\ pItem = tlast.pre
    /\ RetEq(CurrentValue(tlast.type))

\* after a write to the item, a width was called with an array as value
C23_Witness ==
  /\ ReadCall
  /\ tlast.type = "width"
  /\ isArray(tlast.value)
  /\ writes > 0
  /\ RetEq(Rounded(BoxOnPage.w))

\* the factors of a scale write: s stands for [s, s]
Factors(value) == IF isNumber(value) THEN ARR(value, value) ELSE value

\* C24, as stated: after a scale write a read of the scale returns the factors
\* written, whatever the scale of the item before, and the same write once
\* more leaves the item as it is.
C24_ScaleIsAbsolute ==
  WroteKind(ScaleKinds) =>
    /\ ArrEq(Measure("scale").ret, Factors(tlast.value))
    /\ ItemEq(transform(World, Env, tlast.type, tlast.value).item, pItem)

\* what the scale write does: the scale of the item is multiplied by the
\* factors written
C24_ScaleIsRelative ==
  WroteKind(ScaleKinds) =>
    ArrEq(Measure("scale").ret,
          ARR(Mul(Factors(tlast.value)[1], Div(tlast.pre.horizontalScale, I(100))),
              Mul(Factors(tlast.value)[2], Div(tlast.pre.verticalScale, I(100)))))

-----------------------------------------------------------------------------
(* Claims on the arguments of rotate(), scale() and translate() *)

\* the argument lists the functions reject
Malformed(op, arg) ==
  \/ op = "rotate" /\ Arg(arg, 0) = UNDEF
  \/ op = "scale" /\ (~IsNumber(Arg(arg, 0)) \/ (Len(arg) = 2 /\ ~IsNumber(Arg(arg, 1))))
  \/ op = "translate" /\ (Arg(arg, 0) = UNDEF \/ Arg(arg, 1) = UNDEF)

\* C25: rotate() without an angle, scale() with a first factor that is not a
\* number or a second factor that is passed and is not a number, and
\* translate() with a coordinate missing throw, and the current matrix and the
\* matrix stack are after the call what they were before it.
C25_MalformedArgumentsThrowAndKeep ==
  [][Malformed(last'.op, last'.arg) =>
       /\ last'.threw
       /\ currMatrix' = currMatrix
       /\ matrixStack' = matrixStack]_vars

C25_Witness ==
  /\ last.op = "translate"
  /\ Len(last.arg) = 1
  /\ last.threw
  /\ Len(matrixStack) > 0
  /\ currMatrix # IdentityElements
  /\ currMatrix = last.pre

-----------------------------------------------------------------------------
(* Claims on Matrix2D.adobeMatrix() *)

PtAdd(p, q) == <<Add(p[1], q[1]), Add(p[2], q[2])>>
PtSub(p, q) == <<Sub(p[1], q[1]), Sub(p[2], q[2])>>

\* C26, as stated: the array returned by m.adobeMatrix(ax, ay), in points,
\* sends every point p to m(p - (ax, ay)) + (ax, ay), the anchor is a fixed
\* point when m has no translation, and m is not modified.
C26_AnchoredFormHoldsAnchor ==
  (method = "adobeMatrix" /\ currUnits = "pt") =>
    /\ \A p \in Points :
         PtEq(adobeMult(ret, p), PtAdd(mult(recv0, PtSub(p, operand)), operand))
    /\ (NumEq(El(recv0, 2), I(0)) /\ NumEq(El(recv0, 5), I(0))) =>
         PtEq(adobeMult(ret, operand), operand)
    /\ recv = recv0

\* what the code computes: in points the array sends p to
\* m(p + (ax, ay)) - (ax, ay); in any unit its translation is the one of that
\* map, m(ax, ay) - (ax, ay), converted to points; and m is not modified
C26_AnchoredFormHoldsOppositeOfAnchor ==
  method = "adobeMatrix" =>
    /\ currUnits = "pt" =>
         \A p \in Points :
           PtEq(adobeMult(ret, p), PtSub(mult(recv0, PtAdd(p, operand)), operand))
    /\ With(PtSub(mult(recv0, operand), operand), LAMBDA t :
         PtEq(<<ret[5], ret[6]>>, <<AsPoints(t[1], currUnits), AsPoints(t[2], currUnits)>>))
    /\ recv = recv0

-----------------------------------------------------------------------------
(* Claims on page() *)

PageOps ==
  {"page", "nextPage", "previousPage", "addPage", "removePage", "pageNumber", "margins"}

\* the state a call of page() leaves: no snapshot on the stack, so that
\* popMatrix() throws, and the matrix of the canvas mode for the page the call
\* made current
PageResetOf(e, stack, mode, page, ox, oy) ==
  /\ stack = <<>>
  /\ popMatrix(stack, e).threw
  /\ MatEq(e, updatePublicPageSizeVars(mode, page, IdentityElements, <<>>, ox, oy).elements)

PageReset ==
  PageResetOf(currMatrix, matrixStack, currCanvasMode, last.arg[2], currOriginX, currOriginY)

\* C27, as stated: every call of page(), nextPage(), previousPage(), addPage(),
\* removePage(), pageNumber() and margins() resets the current matrix to the
\* one of the canvas mode and empties the matrix stack.
C27_PageCallsReset == last.op \in PageOps => PageReset

\* the call goes through currentDoc() while there is no current document,
\* outside page(): page(n) with a number that is no page's, and margins(top)
\* without a page number while there is no current page either
SetsDocument(op, a) ==
  /\ currDoc = "null"
  /\ \/ op = "page" /\ a[1] = "missing"
     \/ op = "margins" /\ a[1] = "set" /\ currPage = "null"

\* C27, amended: every call of page() that returns, made directly or by
\* nextPage(), previousPage(), addPage(), removePage(), pageNumber() without
\* a page and margins() without arguments or with a page number, resets the
\* current matrix to the one of the canvas mode and empties the matrix stack.
\* So does, while there is no current document, a call that sets one on its
\* way: page(n) with a number that is no page's, before it throws, and
\* margins(top) without a page number.  Every other call that throws, and
\* every other call that does not reach page() (pageNumber(page),
\* margins(top) without a page number), leaves the current matrix and the
\* matrix stack as they were.
C27_ReturningPageCallsReset ==
  [][ last'.op \in PageOps =>
        IF \/ ~last'.threw /\ CallsPage(last'.op, last'.arg[1])
           \/ SetsDocument(last'.op, last'.arg[1])
        THEN PageResetOf(currMatrix', matrixStack', currCanvasMode', last'.arg[2],
                         currOriginX', currOriginY')
        ELSE /\ currMatrix' = currMatrix
             /\ matrixStack' = matrixStack ]_vars

\* the getter has just discarded a snapshot that pushMatrix() had made
C27_Witness ==
  /\ last.op = "page"
  /\ last.arg[1] = <<"none">>
  /\ ~last.threw
  /\ dropped > 0
  /\ PageReset

-----------------------------------------------------------------------------
(* Claims on matrix(m) *)

\* the coefficients of the caller's m are those of the current matrix
SameCoefficients == recv = currMatrix

\* m was passed to matrix() since the last resetMatrix()
InstalledSinceReset == \E i \in 1..Len(installs) : installs[i] = "m"

\* m is the argument of the last matrix(Matrix2D) since the last resetMatrix()
InstalledLast == installs # <<>> /\ installs[Len(installs)] = "m"

\* C28, as stated: from matrix(m) until the next resetMatrix() the caller's m
\* and the current matrix are one object, so that their coefficients are the
\* same after every call.
C28_InstalledUntilReset == InstalledSinceReset => (SameCoefficients /\ currRef = "m")

\* C28, amended: from matrix(m) until the next resetMatrix() or the next
\* matrix(m2) with another Matrix2D, the caller's m is the current matrix:
\* rotate, scale, translate, applyMatrix and popMatrix change m as they change
\* the current matrix, a change the caller makes to m changes the current
\* matrix, and none of these changes a snapshot on the stack; matrix() without
\* a Matrix2D changes nothing.
C28_InstalledUntilReplaced ==
  [][/\ InstalledLast' => (SameCoefficients' /\ currRef' = "m")
     /\ (InstalledLast /\ last'.op \in {"rotate", "scale", "translate", "applyMatrix"}) =>
          recv' = inPlace(last'.op, last'.arg, recv).elements
     /\ (InstalledLast /\ last'.op = "popMatrix" /\ ~last'.threw) =>
          /\ recv' = matrixStack[Len(matrixStack)]
          /\ matrixStack' = SubSeq(matrixStack, 1, Len(matrixStack) - 1)
     /\ (InstalledLast /\ last'.op = "m.translate") =>
          currMatrix' = translate(currMatrix, last'.arg[1], last'.arg[2])
     /\ (InstalledLast /\ last'.op \in CallerOps) =>
          currMatrix' = callerStep(last'.op, last'.arg, currMatrix)
     /\ last'.op \in {"rotate", "scale", "translate", "applyMatrix", "m.translate", "matrix"}
                      \cup CallerOps =>
          matrixStack' = matrixStack
     /\ (last'.op = "matrix" /\ last'.arg[1] \in {"none", "array"}) =>
          /\ currMatrix' = currMatrix
          /\ currRef' = currRef
          /\ recv' = recv]_vars

\* popMatrix() has just changed the caller's m, which was installed after the
\* snapshot was pushed
C28_Witness ==
  /\ last.op = "popMatrix"
  /\ ~last.threw
  /\ InstalledLast
  /\ currRef = "m"
  /\ SameCoefficients
  /\ recv # last.pre

\* the caller's m is no longer the current matrix though no resetMatrix()
\* was called since matrix(m)
C28_Replaced ==
  /\ InstalledSinceReset
  /\ ~InstalledLast
  /\ last.op = "rotate"
  /\ ~last.threw
  /\ recv # currMatrix

-----------------------------------------------------------------------------
(* Claims on the value argument *)

\* the call reached the translate branch with an array
TranslatedArray ==
  /\ tlast.type \in {"translate", "translation"}
  /\ isArray(tlast.value)
  /\ ~invalidFirstParameter(tlast.pre)

\* C29: after transform(item, "translate", [dx, dy]) the caller's array holds
\* the offsets converted to points, which in millimetres are other numbers
\* than were passed; after a call of any other kind, position, x and y
\* included, the caller's value is what it was.
C29_TranslateOverwritesArgument ==
  tlast.type # "none" =>
    IF TranslatedArray
    THEN /\ ArrEq(tlast.valueAfter, ARR(AsPoints(tlast.value[1], currUnits),
                                        AsPoints(tlast.value[2], currUnits)))
         /\ ~ArrEq(tlast.valueAfter, tlast.value)
    ELSE tlast.valueAfter = tlast.value

\* a translate in millimetres has moved the item and left points in the array
C29_Witness ==
  /\ TranslatedArray
  /\ ~tlast.threw
  /\ currUnits = "mm"
  /\ ~ItemEq(pItem, tlast.pre)
  /\ NumEq(tlast.valueAfter[1], Mul(tlast.value[1], Q(360, 127)))

-----------------------------------------------------------------------------
(* Claims on what a move leaves alone *)

\* a read of the kind t returns now what it returned before the last call
SameRead(t) ==
  With(Measure(t).ret, LAMBDA now :
    With(transform([item |-> tlast.pre, prefs |-> prefs], Env, t, UNDEF).ret, LAMBDA before :
      IF isArray(now) THEN ArrEq(now, before)
      ELSE isNumber(now) /\ isNumber(before) /\ NumEq(now, before)))

\* C30: after an x write the reads of y, width, height and rotate return what
\* they returned before the call; after a y write the reads of x, width,
\* height and rotate do; after a position write the reads of width, height
\* and rotate do.
C30_MoveChangesOnlyItsCoordinate ==
  /\ (Wrote("x") /\ isNumber(tlast.value)) =>
       \A t \in {"y", "width", "height", "rotate"} : SameRead(t)
  /\ (Wrote("y") /\ isNumber(tlast.value)) =>
       \A t \in {"x", "width", "height", "rotate"} : SameRead(t)
  /\ (Wrote("position") /\ isArray(tlast.value)) =>
       \A t \in {"width", "height", "rotate"} : SameRead(t)

\* an x write has moved an item that is turned and does not lie at y = 0
C30_Witness ==
  /\ Wrote("x")
  /\ ~tlast.threw
  /\ ~ItemEq(pItem, tlast.pre)
  /\ ~SameRead("x")
  /\ ~NumEq(Measure("y").ret, I(0))
  /\ ~NumEq(Measure("rotate").ret, I(0))

-----------------------------------------------------------------------------
(* Claims on referencePoint() *)

\* C15: referencePoint(rp) sets the active reference point to the anchor that
\* rp denotes (a named constant, a native enumerator, or a digit by its place
\* on the number pad) and returns it; referencePoint() returns the active
\* point; and the active point is the one of the last successful set, whatever
\* was called since.
C15_ReferencePointSetsAndKeeps ==
  /\ currRefPoint = refSet
  /\ (tlast.type = "referencePoint" /\ ~tlast.threw) => tlast.ret = refSet

\* after a write to the item, a set by digit made the bottom right corner the
\* active point
C15_Witness ==
  /\ tlast.type = "referencePoint"
  /\ tlast.value = <<"digit">>
  /\ ~tlast.threw
  /\ writes > 0
  /\ currRefPoint = "bottomRight"

====
